---- MODULE Spec2Model ----
(***************************************************************************)
(* Model of the DualMaker control loop of ddkiss/plenty_mm                 *)
(* (src/core/strategy_dual.py) together with the part of the exchange it   *)
(* talks to through BackpackREST (src/core/rest_client.py).                *)
(*                                                                         *)
(* Numbers.  The program computes with Python floats.  They are modelled   *)
(* as fixed-point integers:                                                *)
(*   - a price is a number of price units, tick_size of them per tick;     *)
(*   - a quantity is a number of quantity units, step_size of them per     *)
(*     quantity step (10^-base_precision), min_qty of them per minimum     *)
(*     order;                                                              *)
(*   - an amount of quote currency is price units * quantity units, and    *)
(*     the two resolutions are such that one such unit is the 1 that       *)
(*     replaces a non-positive effective_capital;                          *)
(*   - a percentage is a number of hundredths, a fee rate a number of      *)
(*     hundred-thousandths;                                                *)
(*   - a time is a number of seconds.                                      *)
(* A float division is the integer division \div at that resolution.       *)
(***************************************************************************)
EXTENDS Integers, Sequences, FiniteSets, TLC

\* Python's None in an order-id field; the exchange's ids are 1, 2, ...
None == 0
\* avg_cost before its first assignment (DualMaker.__init__ never assigns it):
\* reading it raises AttributeError.  Every assigned avg_cost is >= 0.
Unset == -1

(***************************************************************************)
(* Bounds of the model.                                                    *)
(***************************************************************************)
\* Orders the exchange accepts in one run; later placements are rejected.
MaxOrders == 2
\* Time since unwind_start_time is counted up to MaxTime seconds and stays there.
MaxTime == 1800
\* The clock is read at this resolution (seconds).
ClockStep == 1800

(***************************************************************************)
(* Program constants (src/config.py defaults) and market constraints.      *)
(***************************************************************************)
LEVERAGE == 1
\* hundredths
GRID_ORDER_PCT == 5
\* hundredths
MAX_POSITION_PCT == 45
\* hundred-thousandths
TAKER_FEE_RATE == 18
\* seconds
BREAKEVEN_TIMEOUT == 1200
\* the literal 600 (seconds) of _logic_unwind
DecayWindow == 600

\* price units per tick (filters.price.tickSize)
tick_size == 2
\* quantity units per quantity step (10^-base_precision)
step_size == 2
\* quantity units of the smallest order (filters.quantity.minQuantity)
min_qty == 2

Symbols == {"SOL_USDC", "SOL_USDC_PERP"}

\* self.is_perp = "PERP" in self.symbol.upper()
IsPerp(sym) == sym = "SOL_USDC_PERP"

\* str.upper() on the asset symbols the exchange reports
Upper(s) == CASE s = "sol" -> "SOL"
              [] s = "usdc" -> "USDC"
              [] OTHER -> s

\* base_asset = self.symbol.split('_')[0].upper()
BaseAsset(sym) == "SOL"

Abs(x) == IF x < 0 THEN -x ELSE x
Max(a, b) == IF a >= b THEN a ELSE b
Min(a, b) == IF a <= b THEN a ELSE b

RECURSIVE SeqMax(_)
SeqMax(s) == IF Len(s) = 1 THEN s[1] ELSE Max(s[1], SeqMax(Tail(s)))
RECURSIVE SeqMin(_)
SeqMin(s) == IF Len(s) = 1 THEN s[1] ELSE Min(s[1], SeqMin(Tail(s)))

\* dict.get(key, default)
Get(d, key, default) == IF key \in DOMAIN d THEN d[key] ELSE default

(***************************************************************************)
(* utils.py: math helpers                                                  *)
(***************************************************************************)
\* Python's round(): round half to even.  x = n / d, d > 0.
RoundHalfEven(n, d) ==
    LET q == n \div d
        r == n % d
    IN  IF 2 * r < d THEN q
        ELSE IF 2 * r > d THEN q + 1
        ELSE IF q % 2 = 0 THEN q ELSE q + 1

\* round_to_step(value, step)
round_to_step(value, step) ==
    IF step <= 0 THEN value ELSE RoundHalfEven(value, step) * step

\* floor_to(value, precision): floor to a whole number of quantity steps
floor_to(value) == (value \div step_size) * step_size


(***************************************************************************)
(* State                                                                   *)
(***************************************************************************)
VARIABLES
    \* --- DualMaker fields (DualMaker.__init__) ---
    symbol,               \* config.SYMBOL
    active_buy_id, active_sell_id,
    active_buy_qty, active_sell_qty,
    active_buy_price, active_sell_price,
    held_qty,
    avg_cost,             \* Unset until first assigned: __init__ never sets it
    equity, real_equity, initial_real_equity,
    mode,
    duration,             \* time.time() - self.unwind_start_time while in UNWIND mode
    stats,
    \* --- DualMaker.run: position in the loop ---
    pc,
    found,                \* init_market_info: the symbol is in the market list
    \* --- the world ---
    exOpen,               \* orders of this symbol open at the exchange
    next_id,              \* next order id the exchange assigns
    \* --- history of the current cycle (cleared by the sleep that starts the next) ---
    calls,                \* writes sent to the exchange, in order
    sync_log,             \* what _sync_state saw and inferred
    risk_log,             \* what the risk check saw and decided
    logic_log,            \* which quote policy ran and the ids it found tracked
    \* --- history of the run ---
    fills_of,             \* order id -> number of fills inferred for it
    \* --- history of the cycle before, kept until _sync_state has run ---
    stranded,             \* ids a cancel_all of that cycle dropped but left open
    \* --- the pricing functions taken alone ---
    probe,                \* inputs and result of one evaluation; NoProbe while the engine runs
    \* --- a second engine, run beside the first on the same answers ---
    twin                  \* its whole state as a record; NoTwin while the engine runs alone

prog_vars == <<symbol, active_buy_id, active_sell_id, active_buy_qty, active_sell_qty,
               active_buy_price, active_sell_price, held_qty, avg_cost, equity,
               real_equity, initial_real_equity, mode, duration, stats>>
loop_vars == <<pc, found>>
world_vars == <<exOpen, next_id>>
hist_vars == <<calls, sync_log, risk_log, logic_log, fills_of, stranded>>
pure_vars == <<probe, twin>>
vars == <<prog_vars, loop_vars, world_vars, hist_vars, pure_vars>>

OrderIds == 1..MaxOrders

NoSync == [ran |-> FALSE, fetched |-> FALSE, col_failed |-> FALSE, pos_failed |-> FALSE,
           snapshot_ok |-> FALSE,
           buy_listed |-> FALSE, sell_listed |-> FALSE,
           raised |-> FALSE, buy_id |-> None, sell_id |-> None, fills |-> <<>>]
NoRisk == [ran |-> FALSE, mode_before |-> "DUAL", mid_price |-> 0, switches |-> 0]
NoLogic == [ran |-> "none", buy_id |-> None, sell_id |-> None]
NoProbe == [fn |-> "none"]
NoTwin == [fee_rate |-> TAKER_FEE_RATE]

(***************************************************************************)
(* What the exchange can answer (BackpackREST).  _request returns the      *)
(* decoded JSON body on HTTP 200 and the dict {"error": text} on any other *)
(* status and on any transport exception.                                  *)
(***************************************************************************)
\* BackpackREST._request: the value returned for a failed request
ErrorDict == [type |-> "dict", body |-> [error |-> "failed"]]

Usdc(n) == [symbol |-> "USDC", balanceNotional |-> n,
            totalQuantity |-> n, borrowedQuantity |-> 0]
Base(name, total, borrowed, notional) ==
    [symbol |-> name, balanceNotional |-> notional,
     totalQuantity |-> total, borrowedQuantity |-> borrowed]
Collateral(net, assets, liab, pnl) ==
    [type |-> "dict",
     body |-> [netEquity |-> net, collateral |-> assets,
               borrowLiability |-> liab, pnlUnrealized |-> pnl]]

\* GET /api/v1/capital/collateral
CollateralResponses ==
    { ErrorDict,
      [type |-> "list", body |-> <<>>],
      \* flat
      Collateral(500, <<Usdc(500)>>, 0, 0),
      \* long 3
      Collateral(500, <<Usdc(479), Base("SOL", 3, 0, 21)>>, 0, 0),
      \* dust, symbol reported in lower case
      Collateral(500, <<Usdc(493), Base("sol", 1, 0, 7)>>, 0, 0),
      \* long 3, little equity left free
      Collateral(20, <<Base("SOL", 3, 0, 21), Usdc(479)>>, 0, 0),
      \* short 3 through borrowing, little equity left free
      Collateral(20, <<Usdc(521), Base("SOL", 0, 3, 0)>>, 21, 0) }

Position(sym, q, entry) == [symbol |-> sym, netQuantity |-> q, entryPrice |-> entry]

\* GET /api/v1/position, as BackpackREST.get_positions hands it on
PositionResponses(sym) ==
    { ErrorDict,
      [type |-> "list", body |-> <<>>],
      [type |-> "list", body |-> <<Position(sym, 1, 7)>>],
      [type |-> "list", body |-> <<Position("BTC_USDC_PERP", 1, 9), Position(sym, -3, 7)>>] }

\* BackpackREST.get_depth returns None when the request fails
NoDepth == [bids |-> <<>>, asks |-> <<>>, none |-> TRUE]

\* GET /api/v1/depth: NoDepth, else the book's levels (prices)
DepthResponses ==
    { NoDepth,
      [bids |-> <<6>>, asks |-> <<8, 10>>],
      [bids |-> <<4, 6>>, asks |-> <<10, 8>>],
      [bids |-> <<8, 6>>, asks |-> <<8, 10>>] }

\* GET /api/v1/markets: the symbols listed ([] when the request fails)
MarketResponses == { <<>>, <<"BTC_USDC">>, <<"BTC_USDC", "SOL_USDC", "SOL_USDC_PERP">> }

(***************************************************************************)
(* DualMaker.__init__                                                      *)
(***************************************************************************)
Constructed ==
    /\ symbol \in Symbols
    /\ active_buy_id = None /\ active_sell_id = None
    /\ active_buy_qty = 0 /\ active_sell_qty = 0
    /\ active_buy_price = 0 /\ active_sell_price = 0
    /\ held_qty = 0
    /\ avg_cost = Unset
    /\ equity = 0 /\ real_equity = 0 /\ initial_real_equity = 0
    /\ mode = "DUAL"
    /\ duration = MaxTime
    /\ stats = [fill_count |-> 0, total_volume |-> 0,
                total_quote_vol |-> 0, total_fee |-> 0]
    /\ pc = "init" /\ found = FALSE
    /\ exOpen = {}
    /\ next_id = 1
    /\ calls = <<>>
    /\ sync_log = NoSync /\ risk_log = NoRisk /\ logic_log = NoLogic
    /\ fills_of = [i \in OrderIds |-> 0]
    /\ stranded = {}

Init == Constructed /\ probe = NoProbe /\ twin = NoTwin


(***************************************************************************)
(* Writes to the exchange                                                  *)
(***************************************************************************)
CancelCall ==
    [op |-> "cancel", side |-> "-", price |-> 0, qty |-> 0, post_only |-> FALSE,
     id |-> None]

\* The order _place sends (payload of DualMaker._place) and the id it got back
PlaceCall(side, price, qty, id) ==
    [op |-> "place", side |-> side, price |-> round_to_step(price, tick_size),
     qty |-> floor_to(qty), post_only |-> TRUE, id |-> id]

\* _place: "if qty < self.min_qty: return None" after flooring
PlaceSends(qty) == floor_to(qty) >= min_qty

\* DELETE /api/v1/orders: every open order of the symbol is cancelled, or the
\* request fails and the book is left as it is.
AfterCancel(open, ok) == IF ok THEN {} ELSE open

\* The answers a cancel can get that differ in their effect: on an empty book
\* a failed cancel leaves what a successful one leaves.
CancelAnswers(open) == IF open = {} THEN {TRUE} ELSE BOOLEAN

\* The answers an order can get: accepted only while the exchange has ids left.
PlaceAnswers(nid) == IF nid <= MaxOrders THEN BOOLEAN ELSE {FALSE}

(***************************************************************************)
(* DualMaker.init_market_info                                              *)
(***************************************************************************)
Listed(markets, sym) == \E i \in 1..Len(markets) : markets[i] = sym

\* A start that goes on to trade without the market's constraints.
AfterInitGoesOn(symbol_found) == "cancel0"

\* "return" once the symbol is found; otherwise exit(1), a SystemExit that
\* neither "except Exception" of init_market_info, run or main catches
AfterInit(symbol_found) == IF symbol_found THEN "cancel0" ELSE "exited"

InitWith(markets) ==
    /\ pc = "init"
    /\ found' = Listed(markets, symbol)
    /\ pc' = AfterInit(found')
    /\ UNCHANGED <<prog_vars, world_vars, hist_vars>>

InitMarketInfo ==
    /\ pc = "init"
    /\ \E markets \in MarketResponses : InitWith(markets)
    /\ UNCHANGED pure_vars

(***************************************************************************)
(* The engine as a record, so that the calls of one pass compose and a     *)
(* method can be applied to any engine: every field of self, the           *)
(* exchange's book and ids, the calls sent, what the last sync logged and  *)
(* the number of assignments to self.mode.                                 *)
(***************************************************************************)
Here ==
    [symbol |-> symbol, fee_rate |-> TAKER_FEE_RATE,
     buy_id |-> active_buy_id, sell_id |-> active_sell_id,
     buy_price |-> active_buy_price, buy_qty |-> active_buy_qty,
     sell_price |-> active_sell_price, sell_qty |-> active_sell_qty,
     held |-> held_qty, avg |-> avg_cost,
     equity |-> equity, real |-> real_equity, initial |-> initial_real_equity,
     stats |-> stats,
     mode |-> mode, duration |-> duration,
     open |-> exOpen, nid |-> next_id, calls |-> calls,
     sync |-> sync_log, switches |-> 0]

\* The engine's fields set from the record (r: the record, worked out once)
Store(q) ==
    \E r \in {q} :
        /\ active_buy_id' = r.buy_id /\ active_sell_id' = r.sell_id
        /\ active_buy_price' = r.buy_price /\ active_buy_qty' = r.buy_qty
        /\ active_sell_price' = r.sell_price /\ active_sell_qty' = r.sell_qty
        /\ held_qty' = r.held /\ avg_cost' = r.avg
        /\ equity' = r.equity /\ real_equity' = r.real
        /\ initial_real_equity' = r.initial
        /\ stats' = r.stats
        /\ mode' = r.mode /\ duration' = r.duration
        /\ exOpen' = r.open /\ next_id' = r.nid /\ calls' = r.calls

\* A cancel that also writes the position off.
CancelAllResetsLedger(q, ok) ==
    [q EXCEPT !.open = AfterCancel(q.open, ok),
              !.buy_id = None, !.sell_id = None,
              !.held = 0, !.avg = 0,
              !.calls = Append(q.calls, CancelCall)]

(***************************************************************************)
(* DualMaker._sync_state                                                   *)
(***************************************************************************)
\* total_assets_notional: the sum of balanceNotional over the collateral list
RECURSIVE TotalNotional(_)
TotalNotional(assets) ==
    IF assets = <<>> THEN 0
    ELSE Get(Head(assets), "balanceNotional", 0) + TotalNotional(Tail(assets))

\* A scan that takes the remote quantity only when it differs from the local
\* one by more than min_qty (the condition of the log line at 117).
RECURSIVE ScanCollateralOnLargeChange(_, _, _)
ScanCollateralOnLargeChange(assets, base, acc) ==
    IF assets = <<>> THEN acc
    ELSE LET a == Head(assets)
             hit == Upper(Get(a, "symbol", "")) = base
             new == Get(a, "totalQuantity", 0) - Get(a, "borrowedQuantity", 0)
             nxt == IF hit
                    THEN [found |-> TRUE,
                          held |-> IF Abs(new - acc.held) > min_qty THEN new
                                   ELSE acc.held]
                    ELSE acc
         IN  ScanCollateralOnLargeChange(Tail(assets), base, nxt)

\* The loop over the collateral list: the net quantity (total - borrowed) of the
\* last asset whose upper-cased symbol is the base asset; found = FALSE if none.
RECURSIVE ScanCollateral(_, _, _)
ScanCollateral(assets, base, acc) ==
    IF assets = <<>> THEN acc
    ELSE LET a == Head(assets)
             hit == Upper(Get(a, "symbol", "")) = base
             nxt == IF hit
                    THEN [found |-> TRUE,
                          held |-> Get(a, "totalQuantity", 0) - Get(a, "borrowedQuantity", 0)]
                    ELSE acc
         IN  ScanCollateral(Tail(assets), base, nxt)

\* The loop over the positions: the first position of the symbol (break), if any.
RECURSIVE ScanPositions(_, _)
ScanPositions(positions, sym) ==
    IF positions = <<>> THEN [found |-> FALSE, held |-> 0, avg |-> 0]
    ELSE IF Get(Head(positions), "symbol", "") = sym
         THEN [found |-> TRUE,
               held |-> Get(Head(positions), "netQuantity", 0),
               avg |-> Get(Head(positions), "entryPrice", 0)]
         ELSE ScanPositions(Tail(positions), sym)

\* The perpetual position read: a response that is not a list counts as no position.
PerpPosition(pos, sym) ==
    IF pos.type = "list" THEN ScanPositions(pos.body, sym)
    ELSE [found |-> FALSE, held |-> 0, avg |-> 0]

\* "if not isinstance(open_orders, list): open_orders = []", then
\* active_ids = {str(o['id']) for o in open_orders}
ActiveIds(ok, open) == IF ok THEN {o.id : o \in open} ELSE {}

\* "if self.active_buy_id and str(self.active_buy_id) not in active_ids"
Gone(id, active_ids) == id /= None /\ id \notin active_ids

\* DualMaker._update_stats
UpdateStats(st, price, qty, fee_rate) ==
    [fill_count |-> st.fill_count + 1,
     total_volume |-> st.total_volume + qty,
     total_quote_vol |-> st.total_quote_vol + price * qty,
     total_fee |-> st.total_fee + price * qty * fee_rate]

\* Spot cost basis after a buy fill (lines 172-179); avg is the cost before.
SpotBuyCost(held, avg, fill_price, fill_qty) ==
    LET prev_qty == Max(0, held - fill_qty)
    IN  IF held > 0
        THEN (prev_qty * avg + fill_qty * fill_price) \div held
        ELSE fill_price

\* Reading self.avg_cost in the spot buy branch raises when it was never assigned.
SpotBuyRaises(perp, held, avg) == ~perp /\ held > 0 /\ avg = Unset

Fill(side, id, price, qty) == [side |-> side, id |-> id, price |-> price, qty |-> qty]

CountFill(f, id) == [f EXCEPT ![id] = @ + 1]

\* A fill check that takes the fill and goes on tracking the id.
AfterFillKeepsId(id) == id

\* The id a fill check leaves tracked: forgotten once the fill is taken.
AfterFill(id) == None

\* An error of _sync_state that reaches run and ends it.
AfterSyncPropagates(at, raised) ==
    IF raised THEN "exited" ELSE IF at = "sync0" THEN "sleep" ELSE "quote"

\* Where run goes on when _sync_state returns.  Its "except Exception" logs
\* the error, so it returns normally whether or not something was raised.
AfterSync(at, raised) == IF at = "sync0" THEN "sleep" ELSE "quote"

\* The fills of one sync added to the count of each order
RECURSIVE CountFills(_, _)
CountFills(f, fills) ==
    IF fills = <<>> THEN f
    ELSE CountFills(CountFill(f, Head(fills).id), Tail(fills))

\* _sync_state on the engine q, given the answers of the exchange:
\* col: get_collateral, pos: get_positions, listed: get_open_orders answers
\* with a list
Synced(q, col, pos, listed) ==
    LET perp == IsPerp(q.symbol)
        before == [NoSync EXCEPT !.ran = TRUE, !.buy_id = q.buy_id,
                                 !.sell_id = q.sell_id]
    IN
    IF col.type /= "dict"
    THEN \* "if not isinstance(col, dict): return"
         [q EXCEPT !.sync = before]
    ELSE
    LET body == col.body
        assets == Get(body, "collateral", <<>>)
        scan == ScanCollateral(assets, BaseAsset(q.symbol),
                               [found |-> FALSE, held |-> q.held])
        real == TotalNotional(assets) - Get(body, "borrowLiability", 0)
                    + Get(body, "pnlUnrealized", 0)
        held_spot == IF ~scan.found /\ ~perp THEN 0 ELSE scan.held
        pp == PerpPosition(pos, q.symbol)
        held1 == IF perp THEN pp.held ELSE held_spot
        avg1 == IF perp THEN pp.avg ELSE q.avg
        active_ids == ActiveIds(listed, q.open)
        buy_gone == Gone(q.buy_id, active_ids)
        sell_gone == Gone(q.sell_id, active_ids)
        raises == buy_gone /\ SpotBuyRaises(perp, held1, avg1)
        \* after the buy check
        avg2 == IF buy_gone /\ ~perp
                THEN SpotBuyCost(held1, avg1, q.buy_price, q.buy_qty)
                ELSE avg1
        stats2 == IF buy_gone
                  THEN UpdateStats(q.stats, q.buy_price, q.buy_qty, q.fee_rate)
                  ELSE q.stats
        fills2 == IF buy_gone
                  THEN <<Fill("Buy", q.buy_id, q.buy_price, q.buy_qty)>>
                  ELSE <<>>
        \* after the sell check
        avg3 == IF sell_gone /\ ~perp /\ Abs(held1) < min_qty THEN 0 ELSE avg2
        stats3 == IF sell_gone
                  THEN UpdateStats(stats2, q.sell_price, q.sell_qty, q.fee_rate)
                  ELSE stats2
        fills3 == IF sell_gone
                  THEN Append(fills2, Fill("Sell", q.sell_id, q.sell_price, q.sell_qty))
                  ELSE fills2
        seen == [before EXCEPT !.fetched = TRUE, !.snapshot_ok = listed,
                               !.col_failed = "error" \in DOMAIN body,
                               !.pos_failed = perp /\ pos.type = "dict",
                               !.buy_listed = \E o \in q.open : listed /\ o.id = q.buy_id,
                               !.sell_listed = \E o \in q.open : listed /\ o.id = q.sell_id]
        q1 == [q EXCEPT !.equity = Get(body, "netEquity", 0),
                        !.real = real,
                        !.held = held1,
                        !.initial = IF q.initial = 0 /\ real > 0 THEN real
                                    ELSE q.initial]
    IN  IF raises
        THEN \* AttributeError, caught by "except Exception" at the end
             [q1 EXCEPT !.avg = avg1, !.sync = [seen EXCEPT !.raised = TRUE]]
        ELSE [q1 EXCEPT !.avg = avg3,
                        !.stats = stats3,
                        !.buy_id = IF buy_gone THEN AfterFill(q.buy_id) ELSE q.buy_id,
                        !.sell_id = IF sell_gone THEN AfterFill(q.sell_id)
                                    ELSE q.sell_id,
                        !.sync = [seen EXCEPT !.fills = fills3]]

\* The answers one sync can get.  get_positions is called for a perpetual
\* only, and like get_open_orders only after a collateral answer that is a dict.
PositionAnswers(col) ==
    IF IsPerp(symbol) /\ col.type = "dict" THEN PositionResponses(symbol)
    ELSE {ErrorDict}

SnapshotAnswers(col) == IF col.type = "dict" THEN BOOLEAN ELSE {FALSE}

\* The engine's sync on these answers
SyncWith(col, pos, listed) ==
    /\ pc \in {"sync0", "sync"}
    /\ \E h \in {Here} : \E r \in {Synced(h, col, pos, listed)} :
           /\ Store(r)
           /\ sync_log' = r.sync
           /\ fills_of' = CountFills(fills_of, r.sync.fills)
    /\ pc' = AfterSync(pc, sync_log'.raised)
    /\ stranded' = {}
    /\ UNCHANGED <<symbol, risk_log, logic_log, found>>

SyncState ==
    /\ pc \in {"sync0", "sync"}
    /\ \E col \in CollateralResponses :
         \E pos \in PositionAnswers(col), listed \in SnapshotAnswers(col) :
            SyncWith(col, pos, listed)
    /\ UNCHANGED pure_vars

\* A cancel_all that keeps its ids when the exchange did not cancel.
CancelAllKeepsOnFailure(q, ok) ==
    [q EXCEPT !.open = AfterCancel(q.open, ok),
              !.buy_id = IF ok THEN None ELSE @,
              !.sell_id = IF ok THEN None ELSE @,
              !.calls = Append(q.calls, CancelCall)]

\* DualMaker.cancel_all: send the cancel, then forget both ids, whatever the
\* exchange answered (ok: the exchange cancelled the orders).
cancel_all(q, ok) ==
    [q EXCEPT !.open = AfterCancel(q.open, ok),
              !.buy_id = None, !.sell_id = None,
              !.calls = Append(q.calls, CancelCall)]

\* DualMaker._place: the id the exchange assigned, or None (nothing sent because
\* the floored quantity is below min_qty, or the order was rejected).
PlacedId(q, qty, accepted) ==
    IF PlaceSends(qty) /\ accepted /\ q.nid <= MaxOrders THEN q.nid ELSE None

\* DualMaker._place: the exchange and the calls after it
place(q, side, price, qty, accepted) ==
    LET id == PlacedId(q, qty, accepted)
    IN  [q EXCEPT !.open = IF id /= None THEN q.open \cup {[id |-> id, side |-> side]}
                           ELSE q.open,
                  !.nid = IF id /= None THEN q.nid + 1 ELSE q.nid,
                  !.calls = IF PlaceSends(qty)
                            THEN Append(q.calls, PlaceCall(side, price, qty, id))
                            ELSE q.calls]

(***************************************************************************)
(* DualMaker.run: self.cancel_all() before the first sync                  *)
(***************************************************************************)
StartCancelWith(ok) ==
    /\ pc = "cancel0"
    /\ pc' = "sync0"
    /\ Store(cancel_all(Here, ok))
    /\ UNCHANGED <<symbol, sync_log, risk_log, logic_log, fills_of, stranded, found>>

StartCancel ==
    /\ pc = "cancel0"
    /\ \E ok \in CancelAnswers(exOpen) : StartCancelWith(ok)
    /\ UNCHANGED pure_vars

(***************************************************************************)
(* DualMaker.run: the risk check                                           *)
(***************************************************************************)
\* mid_price = (bid_1 + ask_1) / 2
MidPrice(bid, ask) == (bid + ask) \div 2

\* effective_capital = equity * LEVERAGE, replaced by 1 when <= 0
EffectiveCapital(eq) == IF eq * LEVERAGE <= 0 THEN 1 ELSE eq * LEVERAGE

\* ratio > MAX_POSITION_PCT, with ratio = |held_qty * mid_price| / effective_capital
RatioHigh(held, mid, eq) ==
    Abs(held * mid) * 100 > MAX_POSITION_PCT * EffectiveCapital(eq)

\* abs(self.held_qty) < self.min_qty
IsFlat(held) == Abs(held) < min_qty

\* A risk check that leaves DUAL whenever a position is held.
RiskDecisionIgnoresRatio(m, high, flat) ==
    IF m = "DUAL" /\ ~flat THEN "toUnwind"
    ELSE IF m = "UNWIND" /\ flat THEN "toDual" ELSE "stay"

\* The if / elif of the risk check: the transition it performs, if any.
RiskDecision(m, high, flat) ==
    IF high
    THEN (IF m = "DUAL" THEN "toUnwind" ELSE "stay")
    ELSE IF flat /\ m = "UNWIND" THEN "toDual" ELSE "stay"

\* A risk check that only flips the mode: the resting quotes stay and the
\* clock of the unwind is not started.
RiskCheckSwitchOnly(q, held, eq, bid, ask, ok) ==
    LET d == RiskDecision(q.mode, RatioHigh(held, MidPrice(bid, ask), eq), IsFlat(held))
    IN  IF d = "toUnwind"
        THEN [q EXCEPT !.mode = "UNWIND", !.switches = @ + 1]
        ELSE IF d = "toDual"
        THEN [cancel_all(q, ok) EXCEPT !.mode = "DUAL", !.switches = @ + 1]
        ELSE q

\* A risk check that records the settlement equity when it begins an unwind.
RiskCheckRecordsEquity(q, held, eq, bid, ask, ok) ==
    LET d == RiskDecision(q.mode, RatioHigh(held, MidPrice(bid, ask), eq), IsFlat(held))
    IN  IF d = "toUnwind"
        THEN [cancel_all(q, ok) EXCEPT !.mode = "UNWIND", !.duration = 0,
                                       !.initial = q.real, !.switches = @ + 1]
        ELSE IF d = "toDual"
        THEN [cancel_all(q, ok) EXCEPT !.mode = "DUAL", !.switches = @ + 1]
        ELSE q

RiskCheck(q, held, eq, bid, ask, ok) ==
    LET d == RiskDecision(q.mode, RatioHigh(held, MidPrice(bid, ask), eq), IsFlat(held))
    IN  IF d = "toUnwind"
        THEN \* mode = "UNWIND"; cancel_all(); unwind_start_time = time.time()
             [cancel_all(q, ok) EXCEPT !.mode = "UNWIND", !.duration = 0,
                                       !.switches = @ + 1]
        ELSE IF d = "toDual"
        THEN \* cancel_all(); mode = "DUAL"
             [cancel_all(q, ok) EXCEPT !.mode = "DUAL", !.switches = @ + 1]
        ELSE q

(***************************************************************************)
(* DualMaker._logic_dual                                                   *)
(***************************************************************************)
\* raw_qty = (equity * LEVERAGE * GRID_ORDER_PCT) / target_ask
RawQty(eq, target_ask) == (eq * LEVERAGE * GRID_ORDER_PCT) \div (100 * target_ask)

\* A classification that knows no pair: any tracked order counts as a lone leg.
DualStateNoPair(buy, sell) ==
    IF buy /= None \/ sell /= None THEN "LEGGED" ELSE "FLAT"

\* What _logic_dual finds tracked: has_buy and has_sell, has_buy != has_sell
DualState(buy, sell) ==
    IF buy /= None /\ sell /= None THEN "PAIRED"
    ELSE IF (buy /= None) /= (sell /= None) THEN "LEGGED"
    ELSE "FLAT"

\* A guard that looks at the size only.
DualSkipsSizeOnly(raw_qty, target_bid, target_ask) == raw_qty < min_qty

\* "if raw_qty < self.min_qty: return", "if target_bid >= target_ask: return"
DualSkips(raw_qty, target_bid, target_ask) ==
    raw_qty < min_qty \/ target_bid >= target_ask

\* A pair quoted one tick behind the best prices.
PlacePairBehindBest(q, target_bid, target_ask, raw_qty, buy_ok, sell_ok) ==
    LET bid_2 == target_bid - tick_size
        ask_2 == target_ask + tick_size
        new_buy_id == PlacedId(q, raw_qty, buy_ok)
        q1 == place(q, "Bid", bid_2, raw_qty, buy_ok)
        new_sell_id == PlacedId(q1, raw_qty, sell_ok)
        q2 == place(q1, "Ask", ask_2, raw_qty, sell_ok)
        q3 == IF new_buy_id /= None
              THEN [q2 EXCEPT !.buy_id = new_buy_id, !.buy_price = bid_2,
                              !.buy_qty = raw_qty]
              ELSE q2
    IN  IF new_sell_id /= None
        THEN [q3 EXCEPT !.sell_id = new_sell_id, !.sell_price = ask_2,
                        !.sell_qty = raw_qty]
        ELSE q3

\* A pair tracked under the ids the exchange was about to assign, whatever it
\* answered.
PlacePairTracksUnanswered(q, target_bid, target_ask, raw_qty, buy_ok, sell_ok) ==
    LET q1 == place(q, "Bid", target_bid, raw_qty, buy_ok)
        q2 == place(q1, "Ask", target_ask, raw_qty, sell_ok)
    IN  [q2 EXCEPT !.buy_id = q.nid, !.buy_price = target_bid, !.buy_qty = raw_qty,
                   !.sell_id = q1.nid, !.sell_price = target_ask,
                   !.sell_qty = raw_qty]

\* The two placements of a FLAT pass and the tracking of each accepted leg.
PlacePair(q, target_bid, target_ask, raw_qty, buy_ok, sell_ok) ==
    LET new_buy_id == PlacedId(q, raw_qty, buy_ok)
        q1 == place(q, "Bid", target_bid, raw_qty, buy_ok)
        new_sell_id == PlacedId(q1, raw_qty, sell_ok)
        q2 == place(q1, "Ask", target_ask, raw_qty, sell_ok)
        q3 == IF new_buy_id /= None
              THEN [q2 EXCEPT !.buy_id = new_buy_id, !.buy_price = target_bid,
                              !.buy_qty = raw_qty]
              ELSE q2
    IN  IF new_sell_id /= None
        THEN [q3 EXCEPT !.sell_id = new_sell_id, !.sell_price = target_ask,
                        !.sell_qty = raw_qty]
        ELSE q3

\* A sizing on what is left of the equity after the fees paid so far.
CapitalNetOfFees(q) == q.equity - q.stats.total_fee

\* "self.equity" as _logic_dual reads it for raw_qty
Capital(q) == q.equity

\* A _logic_dual that quotes again beside a lone leg instead of cancelling it.
LogicDualPatchesLeg(q, eq, target_bid, target_ask, ok, buy_ok, sell_ok) ==
    LET raw_qty == RawQty(eq, target_ask)
    IN  IF q.buy_id /= None /\ q.sell_id /= None THEN q
        ELSE IF DualSkips(raw_qty, target_bid, target_ask) THEN q
        ELSE PlacePair(q, target_bid, target_ask, raw_qty, buy_ok, sell_ok)

LogicDual(q, eq, target_bid, target_ask, ok, buy_ok, sell_ok) ==
    LET st == DualState(q.buy_id, q.sell_id)
        raw_qty == RawQty(eq, target_ask)
    IN  IF st = "PAIRED" THEN q
        ELSE IF st = "LEGGED" THEN cancel_all(q, ok)
        ELSE IF DualSkips(raw_qty, target_bid, target_ask) THEN q
        ELSE PlacePair(q, target_bid, target_ask, raw_qty, buy_ok, sell_ok)

(***************************************************************************)
(* DualMaker._logic_unwind                                                 *)
(***************************************************************************)
\* deficit = max(0.0, self.initial_real_equity - self.real_equity)
Deficit(initial, real) == Max(0, initial - real)

\* markup_per_unit: the deficit spread over the position, "if qty_abs > self.min_qty"
Markup(deficit, qty_abs) == IF qty_abs > min_qty THEN deficit \div qty_abs ELSE 0

\* A decay that never stops: the min(1.0, ...) left out.
BlendUncapped(target, best, dur) ==
    LET n == dur - BREAKEVEN_TIMEOUT
    IN  (target * (DecayWindow - n) + best * n) \div DecayWindow

\* decay = min(1.0, (duration - BREAKEVEN_TIMEOUT) / 600), as a number of
\* DecayWindow-ths; target * (1 - decay) + best * decay
Blend(target, best, dur) ==
    LET n == Min(DecayWindow, dur - BREAKEVEN_TIMEOUT)
    IN  (target * (DecayWindow - n) + best * n) \div DecayWindow

\* target_price of the long branch, before "final_ask = max(target_price, best_ask)"
TargetAsk(best_bid, best_ask, markup, dur) ==
    LET target0 == MidPrice(best_bid, best_ask) + markup
    IN  IF dur > BREAKEVEN_TIMEOUT THEN Blend(target0, best_ask, dur) ELSE target0

\* final_ask of the long branch
FinalAsk(best_bid, best_ask, markup, dur) ==
    Max(TargetAsk(best_bid, best_ask, markup, dur), best_ask)

\* target_price of the short branch, before "final_bid = min(target_price, best_bid)"
TargetBid(best_bid, best_ask, markup, dur) ==
    LET target0 == MidPrice(best_bid, best_ask) - markup
        target1 == IF target0 <= 0 THEN best_bid \div 2 ELSE target0
    IN  IF dur > BREAKEVEN_TIMEOUT THEN Blend(target1, best_bid, dur) ELSE target1

\* A short exit that is not held at or below the best bid.
FinalBidAtTarget(best_bid, best_ask, markup, dur) ==
    TargetBid(best_bid, best_ask, markup, dur)

\* final_bid of the short branch
FinalBid(best_bid, best_ask, markup, dur) ==
    Min(TargetBid(best_bid, best_ask, markup, dur), best_bid)

\* A re-quote tolerance of half a tick.
DriftedHalfTick(resting_price, final) == 2 * Abs(resting_price - final) > tick_size

\* "if abs(self.active_sell_price - final_ask) > self.tick_size"
Drifted(resting_price, final) == Abs(resting_price - final) > tick_size

\* An unwind branch that leaves the opposite side alone.
ClearOppositeSkipped(q, opposite_id, ok) == q

\* "if self.active_buy_id: self.cancel_all()" of the long branch,
\* "if self.active_sell_id: self.cancel_all()" of the short branch
ClearOpposite(q, opposite_id, ok) ==
    IF opposite_id /= None THEN cancel_all(q, ok) ELSE q

\* Scenario A: long, sell
UnwindLong(q, qty_abs, final_ask, ok1, ok2, accepted) ==
    LET q1 == ClearOpposite(q, q.buy_id, ok1)
    IN  IF q1.sell_id /= None /\ Drifted(q1.sell_price, final_ask)
        THEN cancel_all(q1, ok2)
        ELSE IF q1.sell_id /= None THEN q1
        ELSE LET id == PlacedId(q1, qty_abs, accepted)
                 q2 == [place(q1, "Ask", final_ask, qty_abs, accepted)
                            EXCEPT !.sell_id = id]
             IN  IF id /= None
                 THEN [q2 EXCEPT !.sell_price = final_ask, !.sell_qty = qty_abs]
                 ELSE q2

\* Scenario B: short, buy
UnwindShort(q, qty_abs, final_bid, ok1, ok2, accepted) ==
    LET q1 == ClearOpposite(q, q.sell_id, ok1)
    IN  IF q1.buy_id /= None /\ Drifted(q1.buy_price, final_bid)
        THEN cancel_all(q1, ok2)
        ELSE IF q1.buy_id /= None THEN q1
        ELSE LET id == PlacedId(q1, qty_abs, accepted)
                 q2 == [place(q1, "Bid", final_bid, qty_abs, accepted)
                            EXCEPT !.buy_id = id]
             IN  IF id /= None
                 THEN [q2 EXCEPT !.buy_price = final_bid, !.buy_qty = qty_abs]
                 ELSE q2

LogicUnwind(q, held, initial, real, best_bid, best_ask, ok1, ok2, accepted) ==
    LET qty_abs == Abs(held)
        markup == Markup(Deficit(initial, real), qty_abs)
    IN  IF held >= min_qty
        THEN UnwindLong(q, qty_abs, FinalAsk(best_bid, best_ask, markup, q.duration),
                        ok1, ok2, accepted)
        ELSE IF held <= -min_qty
        THEN UnwindShort(q, qty_abs, FinalBid(best_bid, best_ask, markup, q.duration),
                         ok1, ok2, accepted)
        ELSE q

(***************************************************************************)
(* DualMaker.run: the loop                                                 *)
(***************************************************************************)
\* The clock: unwind_start_time is read only by _logic_unwind, which runs only
\* in UNWIND mode, and every entry to UNWIND sets it anew.  So the time since
\* unwind_start_time is counted while the mode is UNWIND, up to MaxTime, and
\* is not kept while the mode is DUAL (it rests at MaxTime).
\* late: ClockStep seconds have gone by since the pass before.
Later(m, dur, late) ==
    IF m = "UNWIND" THEN (IF late THEN Min(MaxTime, dur + ClockStep) ELSE dur)
    ELSE MaxTime

\* The orders a pass that called cancel_all leaves open at the exchange and
\* tracked by nobody
Stranded ==
    IF \E i \in DOMAIN calls : calls[i].op = "cancel"
    THEN {o.id : o \in exOpen} \ {active_buy_id, active_sell_id}
    ELSE {}

\* time.sleep(4.5) at the top of the loop, and whatever time the pass took.
\* The histories of the pass that ended are dropped here.
\* The engine q when its next pass starts; late: the clock has moved on
Slept(q, late) ==
    [q EXCEPT !.duration = Later(q.mode, q.duration, late),
              !.calls = <<>>, !.sync = NoSync, !.switches = 0]

SleepWith(late) ==
    /\ pc = "sleep"
    /\ pc' = "sync"
    /\ Store(Slept(Here, late))
    /\ stranded' = Stranded
    /\ sync_log' = NoSync /\ risk_log' = NoRisk /\ logic_log' = NoLogic
    /\ UNCHANGED <<symbol, fills_of, found>>

Sleep ==
    /\ pc = "sleep"
    /\ \E late \in BOOLEAN : SleepWith(late)
    /\ UNCHANGED pure_vars

\* "if not depth: continue"; "if len(bids) < 2 or len(asks) < 2: continue"
\* A depth check that is content with one level a side.
BookUsableOneLevel(depth) ==
    /\ "none" \notin DOMAIN depth
    /\ Len(depth.bids) >= 1
    /\ Len(depth.asks) >= 1

BookUsable(depth) ==
    /\ "none" \notin DOMAIN depth
    /\ Len(depth.bids) >= 2
    /\ Len(depth.asks) >= 2

\* The pass ends at one of the two "continue"s after rest.get_depth.
Skipped(q) == [q EXCEPT !.sync = NoSync]

SkipCycleWith(depth) ==
    /\ pc = "quote"
    /\ ~BookUsable(depth)
    /\ pc' = "sleep"
    /\ sync_log' = NoSync
    /\ UNCHANGED <<prog_vars, world_vars, calls, risk_log, logic_log, fills_of, stranded,
                   found>>

SkipCycle ==
    /\ pc = "quote"
    /\ \E depth \in DepthResponses : SkipCycleWith(depth)
    /\ UNCHANGED pure_vars

\* A risk check that values the position at its average cost when one is known.
RiskCheckedAtCost(q, bid_1, ask_1, ok) ==
    LET held == q.held
        eq == q.equity
        mark == IF q.avg > 0 THEN q.avg ELSE MidPrice(bid_1, ask_1)
    IN  RiskCheck([q EXCEPT !.switches = 0], held, eq, mark, mark, ok)

\* The rest of the pass: best prices, risk check, the quote policy of the mode.
\* ok: the exchange carries out the cancels of this pass (a cancel empties the
\* book and no order is placed between two cancels of one pass, so one answer
\* for all of them gives every outcome); acc1, acc2: it accepts the placements.
\* The engine after the risk check of a pass
RiskChecked(q, bid_1, ask_1, ok) ==
    LET held == q.held
        eq == q.equity
    IN  RiskCheck([q EXCEPT !.switches = 0], held, eq, bid_1, ask_1, ok)

\* "if self.mode == 'DUAL': self._logic_dual(bid_1, ask_1)
\*  elif self.mode == 'UNWIND': self._logic_unwind(bid_1, ask_1)"
Policy(q, bid_1, ask_1, ok, acc1, acc2) ==
    LET r == IF q.mode = "DUAL"
             THEN LogicDual(q, Capital(q), bid_1, ask_1, ok, acc1, acc2)
             ELSE LogicUnwind(q, q.held, q.initial, q.real,
                              bid_1, ask_1, ok, ok, acc1)
    IN  [r EXCEPT !.sync = NoSync]

\* The engine q after the rest of a pass on this book and these answers
Quoted(q, depth, ok, acc1, acc2) ==
    LET bid_1 == SeqMax(depth.bids)
        ask_1 == SeqMin(depth.asks)
    IN  Policy(RiskChecked(q, bid_1, ask_1, ok), bid_1, ask_1, ok, acc1, acc2)

QuoteWith(depth, ok, acc1, acc2) ==
    /\ pc = "quote"
    /\ pc' = "sleep"
    /\ BookUsable(depth)
    /\ \E bid_1 \in {SeqMax(depth.bids)}, ask_1 \in {SeqMin(depth.asks)} :
       \E h \in {Here} : \E q1 \in {RiskChecked(h, bid_1, ask_1, ok)} :
       \E q2 \in {Policy(q1, bid_1, ask_1, ok, acc1, acc2)} :
           /\ Store(q2)
           /\ risk_log' = [ran |-> TRUE, mode_before |-> mode,
                           mid_price |-> MidPrice(bid_1, ask_1),
                           switches |-> q1.switches]
           /\ logic_log' = [ran |-> IF q1.mode = "DUAL" THEN "dual" ELSE "unwind",
                            buy_id |-> q1.buy_id, sell_id |-> q1.sell_id]
    /\ sync_log' = NoSync
    /\ UNCHANGED <<symbol, fills_of, stranded, found>>

Quote ==
    /\ pc = "quote"
    /\ \E depth \in DepthResponses :
         \E ok \in CancelAnswers(exOpen),
            acc1 \in PlaceAnswers(next_id), acc2 \in PlaceAnswers(next_id) :
            QuoteWith(depth, ok, acc1, acc2)
    /\ UNCHANGED pure_vars

(***************************************************************************)
(* The exchange                                                            *)
(***************************************************************************)
\* An open order leaves the book: it is filled, or cancelled by someone else.
\* The program can only notice at its next snapshot, so the event is placed
\* right before it.
LeavesWith(o) ==
    /\ pc = "sync"
    /\ exOpen' = exOpen \ {o}
    /\ UNCHANGED <<prog_vars, loop_vars, next_id, hist_vars>>

OrderLeavesBook ==
    /\ pc = "sync"
    /\ \E o \in exOpen : LeavesWith(o)
    /\ UNCHANGED pure_vars

Next ==
    \/ InitMarketInfo
    \/ StartCancel
    \/ SyncState
    \/ Sleep
    \/ SkipCycle
    \/ Quote
    \/ OrderLeavesBook

Spec == Init /\ [][Next]_vars

\* run is the only thread and none of its steps blocks for ever: the sleeps
\* are 4.5 s and 1 s, every request carries timeout=(3.05, 5).  So each step
\* of the loop that can be taken is taken: run does not rest for ever in
\* time.sleep, in _sync_state, or between get_depth and the end of the pass.
\* The conditions are stated on run's position; the steps of Next that move it
\* are Sleep, SyncState, and SkipCycle or Quote.
FairSpec ==
    /\ Spec
    /\ WF_pc(pc = "sleep" /\ pc' = "sync")
    /\ WF_pc(pc \in {"sync0", "sync"} /\ pc' \in {"sleep", "quote"})
    /\ WF_pc(pc = "quote" /\ pc' = "sleep")

(***************************************************************************)
(* Two engines side by side: the same symbol, the same answers of the      *)
(* exchange and the same clock at every step, each with its own book at    *)
(* the exchange, the second one configured with another TAKER_FEE_RATE.    *)
(***************************************************************************)
AltFeeRate == 0

InitFee ==
    /\ Constructed
    /\ probe = NoProbe
    /\ twin = [Here EXCEPT !.fee_rate = AltFeeRate]

StartCancelBoth ==
    /\ pc = "cancel0"
    /\ \E ok \in CancelAnswers(exOpen) :
         StartCancelWith(ok) /\ twin' = cancel_all(twin, ok)
    /\ UNCHANGED probe

SyncBoth ==
    /\ pc \in {"sync0", "sync"}
    /\ \E col \in CollateralResponses :
         \E pos \in PositionAnswers(col), listed \in SnapshotAnswers(col) :
            SyncWith(col, pos, listed) /\ twin' = Synced(twin, col, pos, listed)
    /\ UNCHANGED probe

SleepBoth ==
    /\ pc = "sleep"
    /\ \E late \in BOOLEAN : SleepWith(late) /\ twin' = Slept(twin, late)
    /\ UNCHANGED probe

SkipBoth ==
    /\ pc = "quote"
    /\ \E depth \in DepthResponses : SkipCycleWith(depth) /\ twin' = Skipped(twin)
    /\ UNCHANGED probe

QuoteBoth ==
    /\ pc = "quote"
    /\ \E depth \in DepthResponses :
         \E ok \in CancelAnswers(exOpen),
            acc1 \in PlaceAnswers(next_id), acc2 \in PlaceAnswers(next_id) :
            /\ QuoteWith(depth, ok, acc1, acc2)
            /\ twin' = Quoted(twin, depth, ok, acc1, acc2)
    /\ UNCHANGED probe

LeavesBoth ==
    /\ pc = "sync"
    /\ \E o \in exOpen : LeavesWith(o) /\ twin' = [twin EXCEPT !.open = @ \ {o}]
    /\ UNCHANGED probe

NextFee ==
    \/ InitMarketInfo
    \/ StartCancelBoth
    \/ SyncBoth
    \/ SleepBoth
    \/ SkipBoth
    \/ QuoteBoth
    \/ LeavesBoth

SpecFee == InitFee /\ [][NextFee]_vars

(***************************************************************************)
(* The unwind target taken alone: one position being unwound while the     *)
(* clock runs past the break-even timeout and through the decay window,    *)
(* the book and the markup held still.                                     *)
(***************************************************************************)
MaxPrice == 6
MaxMarkup == 8
DecayStep == 150

\* The quote _logic_unwind computes for the inputs of p
Requoted(p) ==
    IF p.side = "long"
    THEN [p EXCEPT !.target = TargetAsk(p.best_bid, p.best_ask, p.markup, p.dur),
                   !.final = FinalAsk(p.best_bid, p.best_ask, p.markup, p.dur)]
    ELSE [p EXCEPT !.target = TargetBid(p.best_bid, p.best_ask, p.markup, p.dur),
                   !.final = FinalBid(p.best_bid, p.best_ask, p.markup, p.dur)]

DecayProbes ==
    { Requoted([fn |-> "unwind", side |-> sd, best_bid |-> b, best_ask |-> a,
                markup |-> m, dur |-> BREAKEVEN_TIMEOUT, target |-> 0, final |-> 0]) :
        sd \in {"long", "short"}, b \in 1..MaxPrice, a \in 1..MaxPrice,
        m \in 0..MaxMarkup }

InitDecay == Constructed /\ probe \in DecayProbes /\ twin = NoTwin

\* The next pass of the loop, DecayStep seconds later, quotes again.
Elapse ==
    /\ probe.fn = "unwind"
    /\ probe.dur < BREAKEVEN_TIMEOUT + DecayWindow + DecayStep
    /\ probe' = Requoted([probe EXCEPT !.dur = @ + DecayStep])
    /\ UNCHANGED <<prog_vars, loop_vars, world_vars, hist_vars, twin>>

NextDecay == Elapse

SpecDecay == InitDecay /\ [][NextDecay]_vars

(***************************************************************************)
(* BackpackREST._request taken alone: one call, the attempts the session's *)
(* adapter makes for it under the Retry it was mounted with, and what      *)
(* reaches the exchange.                                                   *)
(***************************************************************************)
\* Retry(total=3, ...)
RetryTotal == 3
\* status_forcelist=[500, 502, 503, 504]
StatusForcelist == {500, 502, 503, 504}
\* allowed_methods=["GET"]
AllowedMethods == {"GET"}

\* _request: session.get, session.post or session.delete
Methods == {"GET", "POST", "DELETE"}

\* What one attempt can end in.  reached: the request was written to the
\* exchange before the attempt ended.
\*   connect_error  no connection (refused, unreachable, connect timeout 3.05 s)
\*   read_error     the connection broke or the read timeout (5 s) expired
\*                  while waiting for the response
\*   other_error    neither of the two, e.g. a TLS error: in the handshake
\*                  (nothing written yet) or while the response is read
\*   status         a response with this status code
AttemptOutcomes ==
    { [kind |-> "connect_error", code |-> 0, reached |-> FALSE],
      [kind |-> "read_error", code |-> 0, reached |-> TRUE] }
    \cup { [kind |-> "other_error", code |-> 0, reached |-> r] : r \in BOOLEAN }
    \cup { [kind |-> "status", code |-> c, reached |-> TRUE] :
             c \in {200, 400, 404} \cup StatusForcelist }

\* The adapter's decision to try again.  The Retry has total, status_forcelist
\* and allowed_methods only: allowed_methods limits the retries after a read
\* error and after a status of status_forcelist; a connect error and an error
\* of neither kind are counted against total whatever the method is.
Retried(method, o) ==
    CASE o.kind = "connect_error" -> TRUE
      [] o.kind = "read_error" -> method \in AllowedMethods
      [] o.kind = "other_error" -> TRUE
      [] OTHER -> method \in AllowedMethods /\ o.code \in StatusForcelist

\* "if resp.status_code == 200: return resp.json()", else {"error": ...};
\* an exception of the session ends in {"error": str(e)}
Returned(o) == IF o.kind = "status" /\ o.code = 200 THEN "json" ELSE "error"

\* The call p after one more attempt that ended in o
Attempted(p, o) ==
    LET q == [p EXCEPT !.sent = @ + (IF o.reached THEN 1 ELSE 0),
                       !.tries = Append(@, o.kind)]
    IN  IF Retried(p.method, o) /\ p.total > 0
        THEN [q EXCEPT !.total = @ - 1]
        ELSE [q EXCEPT !.result = Returned(o)]

RequestProbes ==
    { [fn |-> "request", method |-> m, total |-> RetryTotal, sent |-> 0,
       tries |-> <<>>, result |-> "pending"] : m \in Methods }

InitRequest == Constructed /\ probe \in RequestProbes /\ twin = NoTwin

Attempt ==
    /\ probe.fn = "request"
    /\ probe.result = "pending"
    /\ \E o \in AttemptOutcomes : probe' = Attempted(probe, o)
    /\ UNCHANGED <<prog_vars, loop_vars, world_vars, hist_vars, twin>>

NextRequest == Attempt

SpecRequest == InitRequest /\ [][NextRequest]_vars

(***************************************************************************)
(* main: the operator stops the bot.  KeyboardInterrupt is raised in the   *)
(* one thread, wherever it is; it is taken here between two steps of run.  *)
(***************************************************************************)
\* Raised anywhere but inside rest.get_markets: no "except Exception" of
\* _request, _sync_state, cancel_all, init_market_info or run catches it, so
\* it reaches main's "except KeyboardInterrupt: ... bot.cancel_all()".
Interrupt ==
    /\ pc \in {"init", "cancel0", "sync0", "sync", "quote", "sleep"}
    /\ \E ok \in CancelAnswers(exOpen) : Store(cancel_all(Here, ok))
    /\ pc' = "stopped"
    /\ probe' = [fn |-> "stop", at |-> pc]
    /\ UNCHANGED <<symbol, sync_log, risk_log, logic_log, fills_of, stranded, found, twin>>

\* Raised inside rest.get_markets, whose bare "except:" catches it and
\* returns []: init_market_info finds no symbol and calls exit(1).
InterruptInGetMarkets ==
    /\ pc = "init"
    /\ InitWith(<<>>)
    /\ probe' = [fn |-> "stop", at |-> "get_markets"]
    /\ UNCHANGED twin

NextStop == Next \/ Interrupt \/ InterruptInGetMarkets

SpecStop == Init /\ [][NextStop]_vars

(***************************************************************************)
(* One pass of the loop taken alone, from _sync_state's return to the end  *)
(* of the quote policy: the engine starts with a ledger _sync_state can    *)
(* have left (position, cost, equities), nothing tracked, in either mode.  *)
(***************************************************************************)
\* held_qty: short and long, at min_qty and above it, and dust
PassHeld == {-3, -2, 1, 2, 3}
\* avg_cost: not known (0), below and above the book's prices
PassCost == {0, 5, 9}
\* equity (netEquityAvailable): little, some, plenty
PassEquity == {20, 50, 500}
\* real_equity, with initial_real_equity = 500: no loss, a loss, and a loss
\* that spread over the position exceeds the prices of the book
PassReal == {470, 480, 500}

\* An UNWIND that has just begun; in DUAL mode the clock is not read.
PassEngines ==
    { [Here EXCEPT !.held = h, !.avg = c, !.equity = e, !.real = r, !.initial = 500,
                   !.mode = m, !.duration = IF m = "UNWIND" THEN 0 ELSE MaxTime] :
        h \in PassHeld, c \in PassCost, e \in PassEquity, r \in PassReal,
        m \in {"DUAL", "UNWIND"} }

InitPass == Constructed /\ probe = NoProbe /\ twin \in PassEngines

\* The pass: get_depth, the risk check, the quote policy of the mode
Pass ==
    /\ probe.fn = "none"
    /\ \E depth \in {d \in DepthResponses : BookUsable(d)} :
         \E ok \in BOOLEAN, acc1 \in BOOLEAN, acc2 \in BOOLEAN :
            /\ probe' = [fn |-> "pass", before |-> twin, depth |-> depth,
                         bid_1 |-> SeqMax(depth.bids), ask_1 |-> SeqMin(depth.asks)]
            /\ twin' = Quoted(twin, depth, ok, acc1, acc2)
    /\ UNCHANGED <<prog_vars, loop_vars, world_vars, hist_vars>>

\* The pass that ends at "if not depth: continue" or at
\* "if len(bids) < 2 or len(asks) < 2: continue"
PassSkipped ==
    /\ probe.fn = "none"
    /\ \E depth \in {d \in DepthResponses : ~BookUsable(d)} :
            /\ probe' = [fn |-> "skip", before |-> twin, depth |-> depth]
            /\ twin' = Skipped(twin)
    /\ UNCHANGED <<prog_vars, loop_vars, world_vars, hist_vars>>

NextPass == Pass \/ PassSkipped

SpecPass == InitPass /\ [][NextPass]_vars

(***************************************************************************)
(* _sync_state taken alone: the engine comes to it with a position and a   *)
(* cost of its own, with or without a tracked pair, and reads the account. *)
(***************************************************************************)
\* held_qty and avg_cost before the sync
SyncHeld == {-3, 0, 1, 3}
SyncCost == {Unset, 0, 5}

\* The pair of _logic_dual, resting, filled on the buy side, or gone
SyncPairs ==
    { [buy_id |-> None, sell_id |-> None, open |-> {}] } \cup
    { [buy_id |-> 1, sell_id |-> 2, open |-> o] :
        o \in { {[id |-> 1, side |-> "Bid"], [id |-> 2, side |-> "Ask"]},
                {[id |-> 2, side |-> "Ask"]},
                {} } }

SyncEngines ==
    { [Here EXCEPT !.held = h, !.avg = c,
                   !.buy_id = p.buy_id, !.sell_id = p.sell_id, !.open = p.open,
                   !.buy_price = IF p.buy_id = None THEN 0 ELSE 6,
                   !.sell_price = IF p.sell_id = None THEN 0 ELSE 8,
                   !.buy_qty = IF p.buy_id = None THEN 0 ELSE 2,
                   !.sell_qty = IF p.sell_id = None THEN 0 ELSE 2,
                   !.nid = IF p.buy_id = None THEN 1 ELSE 3] :
        h \in SyncHeld, c \in SyncCost, p \in SyncPairs }

InitSync == Constructed /\ probe = NoProbe /\ twin \in SyncEngines

\* One call of _sync_state on these answers
SyncAlone ==
    /\ probe.fn = "none"
    /\ \E col \in CollateralResponses :
         \E pos \in PositionAnswers(col), listed \in SnapshotAnswers(col) :
            /\ probe' = [fn |-> "sync", before |-> twin, col |-> col, pos |-> pos]
            /\ twin' = Synced(twin, col, pos, listed)
    /\ UNCHANGED <<prog_vars, loop_vars, world_vars, hist_vars>>

NextSync == SyncAlone

SpecSync == InitSync /\ [][NextSync]_vars

(***************************************************************************)
(* TickScalper (src/core/strategy.py), the engine main starts when          *)
(* STRATEGY_TYPE is not DUAL_MAKER.  The engine is the record in twin: its  *)
(* fields, its position in run (at) and the exchange it trades at.  A pass  *)
(* of the loop is a function from the record and the answers the pass gets  *)
(* to the record after it, which also carries what the pass wrote, read and *)
(* concluded; the engine keeps none of that, and the next pass starts from  *)
(* the record without it.  The statistics other than the change of          *)
(* total_pnl are left out: nothing reads them but the logs.                 *)
(***************************************************************************)
\* hundredths
BALANCE_PCT == 30
\* hundredths
STOP_LOSS_PCT == 2
\* "self.active_order_price + (4 * self.tick_size)"
ChaseTicks == 4
\* consecutive_loss_count is followed up to this value
MaxLosses == 2
\* the position at the exchange is followed from 0 up to this size
MaxPos == 4

\* No position was read in the step
NoRead == -1

ScalperNew ==
    [at |-> "start", state |-> "IDLE",
     id |-> None, price |-> 0, side |-> "-", maker |-> FALSE,
     held |-> 0, avg |-> 0,
     losses |-> 0, cooling |-> FALSE,
     \* the exchange: the kind of SYMBOL, the position (the base balance of a
     \* spot symbol), the open orders of the account with what is left of each
     spot |-> FALSE, pos |-> 0, open |-> {},
     \* the pass: its writes, the position it read, the change of
     \* stats['total_pnl'], the closing sell it saw, the cool-down it set, the
     \* policy it ran and what that policy found
     calls |-> <<>>, real |-> NoRead, dpnl |-> 0, sold |-> "none",
     trigger |-> "none", ran |-> "none", entry_state |-> "IDLE",
     entry_id |-> None, entry_held |-> 0,
     \* the last closing sell seen by an earlier pass
     trip |-> "none"]

\* The record the next pass starts from.
Fresh(q) ==
    [q EXCEPT !.calls = <<>>, !.real = NoRead, !.dpnl = 0, !.sold = "none",
              !.trigger = "none", !.ran = "none", !.entry_state = "IDLE",
              !.entry_id = None, !.entry_held = 0,
              !.trip = IF q.sold /= "none" THEN q.sold ELSE q.trip]

\* The positions the account can hold when the engine starts
StartQtys == {0, 3}

\* The base asset locked in the resting asks of a spot symbol
RECURSIVE AskLocked(_)
AskLocked(open) ==
    IF open = {} THEN 0
    ELSE LET o == CHOOSE x \in open : TRUE
         IN  (IF o.side = "Ask" THEN o.qty ELSE 0) + AskLocked(open \ {o})

\* _get_real_position.  read_ok: the exchange answered; an error answer holds
\* neither the position nor the asset, and the function returns 0.0.
GetRealPosition(q, read_ok) ==
    IF ~read_ok THEN 0
    ELSE IF q.spot THEN q.pos - AskLocked(q.open)
    ELSE q.pos

\* get_usdc_balance: 0.0 on any failure
UsdcAnswers == {0, 110}

\* GET /api/v1/depth for the scalper: None, and two books
ScalperDepths ==
    { NoDepth,
      [bids |-> <<6, 4>>, asks |-> <<8, 10>>],
      [bids |-> <<14, 16>>, asks |-> <<18>>] }

\* "if not depth: continue", "if not bids or not asks: continue"
DepthUsable(depth) ==
    /\ "none" \notin DOMAIN depth
    /\ depth.bids /= <<>>
    /\ depth.asks /= <<>>

\* The id the exchange gives a new order: one that no open order carries (the
\* engine remembers no id but the one it tracks, and tracks none when it
\* places); None when the book of the model is full.
FreshId(open) ==
    IF \E i \in OrderIds : \A o \in open : o.id /= i
    THEN CHOOSE i \in OrderIds :
             /\ \A o \in open : o.id /= i
             /\ \A j \in OrderIds : (\A o \in open : o.id /= j) => i <= j
    ELSE None

\* net_pnl < 0, with net_pnl = trade_pnl - trade_val * fee_rate and
\* "fee_rate = 0 if self.active_order_is_maker else self.cfg.TAKER_FEE_RATE"
NetLoss(trade_pnl, trade_val, maker) ==
    trade_pnl * 100000 - trade_val * (IF maker THEN 0 ELSE TAKER_FEE_RATE) < 0

\* _check_order_via_rest, the position closed by a sell: the loss count and
\* the cool-downs (229-247)
Closed(q, lost) ==
    LET n == IF lost THEN q.losses + 1 ELSE q.losses
        q1 == [q EXCEPT !.losses = n, !.sold = IF lost THEN "loss" ELSE "gain"]
    IN  IF n = 1
        THEN [q1 EXCEPT !.cooling = TRUE, !.trigger = "short"]
        ELSE IF n >= 2
        THEN [q1 EXCEPT !.cooling = TRUE, !.trigger = "long",
                        !.losses = 0]
        ELSE [q1 EXCEPT !.losses = 0]

\* "is_open": the tracked id is in the open-orders answer; an answer that is
\* not a list holds no id
IsOpen(q, listed) == listed /\ \E o \in q.open : o.id = q.id

\* _check_order_via_rest.  listed: get_open_orders answered with the list;
\* read_ok: get_positions or get_balance answered.
CheckOrderViaRest(q, listed, read_ok) ==
    IF q.id = None \/ IsOpen(q, listed) THEN q
    ELSE
    LET real == GetRealPosition(q, read_ok)
        seen == [q EXCEPT !.real = real, !.id = None, !.side = "-"]
    IN  IF q.side = "Bid"
        THEN IF real > q.held
             THEN [seen EXCEPT !.held = real, !.avg = q.price, !.state = "SELLING"]
             ELSE [seen EXCEPT !.state = "IDLE"]
        ELSE IF real < q.held
        THEN LET filled == q.held - real
                 trade_pnl == (q.price - q.avg) * filled
                 sold == [seen EXCEPT !.dpnl = trade_pnl, !.held = real]
             IN  IF real < min_qty
                 THEN Closed([sold EXCEPT !.state = "IDLE", !.held = 0],
                             NetLoss(trade_pnl, q.price * filled, q.maker))
                 ELSE sold
        ELSE seen

\* _sync_position_state: held_qty from the exchange, dust written off
SyncPositionState(q, read_ok) ==
    LET real == GetRealPosition(q, read_ok)
    IN  [q EXCEPT !.real = real, !.held = IF real < min_qty THEN 0 ELSE real]

\* TickScalper.cancel_all.  ok: the exchange cancelled; read_ok: the position
\* read of _sync_position_state was answered.
ScalperCancelAll(q, ok, read_ok) ==
    IF q.id = None THEN [q EXCEPT !.side = "-"]
    ELSE
    LET q1 == [q EXCEPT !.open = AfterCancel(q.open, ok),
                        !.calls = Append(q.calls, CancelCall)]
        q2 == SyncPositionState(q1, read_ok)
        filled_qty == Abs(q2.held - q.held)
        trade_pnl == (q.price - q.avg) * filled_qty
        q3 == IF filled_qty = 0 THEN q2
              ELSE IF q.side = "Bid"
              THEN (IF q2.held > min_qty THEN [q2 EXCEPT !.avg = q.price] ELSE q2)
              ELSE LET lost == NetLoss(trade_pnl, filled_qty * q.price, q.maker)
                   IN  [q2 EXCEPT !.dpnl = trade_pnl,
                                  !.losses = IF lost THEN @ + 1 ELSE 0,
                                  !.sold = IF q2.held /= 0 THEN "none"
                                           ELSE IF lost THEN "loss" ELSE "gain"]
    IN  [q3 EXCEPT !.id = None, !.side = "-"]

\* _place_order.  accepted: the exchange answers with an id, which it does not
\* for an ask of a spot symbol beyond the free balance.
PlaceOrder(q, side, price, qty, post_only, accepted) ==
    LET p == round_to_step(price, tick_size)
        funded == ~(q.spot /\ side = "Ask")
                      \/ floor_to(qty) <= q.pos - AskLocked(q.open)
        id == IF accepted /\ funded THEN FreshId(q.open) ELSE None
        sent == [q EXCEPT !.calls = Append(@, [op |-> "place", side |-> side,
                                               price |-> p, qty |-> floor_to(qty),
                                               post_only |-> post_only, id |-> id])]
    IN  IF floor_to(qty) < min_qty THEN q
        ELSE IF id = None THEN sent
        ELSE [sent EXCEPT !.id = id, !.price = p, !.side = side,
                          !.maker = post_only,
                          !.open = @ \cup {[id |-> id, side |-> side,
                                             qty |-> floor_to(qty)]}]

\* A buy policy that starts chasing whether or not its bid was taken.
LogicBuyAlwaysBuying(q, best_bid, usdc_available, accepted) ==
    IF q.id /= None \/ usdc_available <= 0 THEN q
    ELSE [PlaceOrder(q, "Bid", best_bid,
                     (usdc_available * BALANCE_PCT * LEVERAGE) \div (100 * best_bid),
                     TRUE, accepted) EXCEPT !.state = "BUYING"]

\* _logic_buy
LogicBuy(q, best_bid, usdc_available, accepted) ==
    IF q.id /= None \/ usdc_available <= 0 THEN q
    ELSE LET qty == (usdc_available * BALANCE_PCT * LEVERAGE) \div (100 * best_bid)
             q1 == PlaceOrder(q, "Bid", best_bid, qty, TRUE, accepted)
         IN  IF q1.id /= None THEN [q1 EXCEPT !.state = "BUYING"] ELSE q1

\* _logic_chase_buy.  late: the order has rested for more than 10 seconds.
LogicChaseBuy(q, best_bid, late, ok, read_ok) ==
    IF q.id = None THEN [q EXCEPT !.state = "IDLE"]
    ELSE IF late /\ best_bid > q.price + ChaseTicks * tick_size
    THEN LET q1 == ScalperCancelAll(q, ok, read_ok)
         IN  IF q1.held > min_qty
             THEN [q1 EXCEPT !.state = "SELLING",
                             !.avg = IF @ = 0 THEN q.price ELSE @]
             ELSE [q1 EXCEPT !.state = "IDLE"]
    ELSE q

\* pnl_pct < -STOP_LOSS_PCT, with pnl_pct = (best_bid - avg_cost) / avg_cost
StopLoss(best_bid, avg) == (best_bid - avg) * 100 < -(STOP_LOSS_PCT * avg)

\* _logic_sell.  late: the position is held for more than STOP_LOSS_TIMEOUT.
LogicSell(q, best_bid, best_ask, late, ok, read_ok, accepted) ==
    IF q.id = None
    THEN LET q1 == IF q.avg = 0 THEN [q EXCEPT !.avg = best_bid] ELSE q
         IN  IF q1.held < min_qty THEN [q1 EXCEPT !.state = "IDLE"]
             ELSE IF StopLoss(best_bid, q1.avg)
             THEN PlaceOrder(q1, "Ask", best_bid, q1.held, FALSE, accepted)
             ELSE IF late
             THEN PlaceOrder(q1, "Ask", best_ask, q1.held, TRUE, accepted)
             ELSE PlaceOrder(q1, "Ask", Max(best_ask, q1.avg + tick_size), q1.held,
                             TRUE, accepted)
    ELSE IF q.side /= "Ask" THEN ScalperCancelAll(q, ok, read_ok)
    ELSE IF StopLoss(best_bid, q.avg) THEN ScalperCancelAll(q, ok, read_ok)
    ELSE IF late /\ 2 * Abs(q.price - best_ask) > tick_size
    THEN ScalperCancelAll(q, ok, read_ok)
    ELSE q

\* The body of "while self.running" from get_depth on
Dispatch(q, in) ==
    IF ~DepthUsable(in.depth) THEN q
    ELSE
    LET best_bid == SeqMax(in.depth.bids)
        best_ask == SeqMin(in.depth.asks)
        q1 == IF q.state = "SELLING" /\ q.avg = 0 THEN [q EXCEPT !.avg = best_bid]
              ELSE q
        q2 == [q1 EXCEPT !.entry_state = q1.state, !.entry_id = q1.id,
                         !.entry_held = q1.held]
    IN  IF q1.state = "IDLE"
        THEN LogicBuy([q2 EXCEPT !.ran = "buy"], best_bid, in.usdc, in.ok)
        ELSE IF q1.state = "BUYING"
        THEN LogicChaseBuy([q2 EXCEPT !.ran = "chase"], best_bid, in.late, in.ok,
                           in.read_ok)
        ELSE LogicSell([q2 EXCEPT !.ran = "sell"], best_bid, best_ask, in.late,
                       in.ok, in.read_ok, in.ok)

\* n of what is left of order o trades at the exchange.
Filled(q, o, n) ==
    [q EXCEPT !.pos = IF o.side = "Bid" THEN @ + n ELSE @ - n,
              !.open = (@ \ {o}) \cup
                           (IF o.qty > n THEN {[o EXCEPT !.qty = o.qty - n]} ELSE {})]

\* The tracked order trades by one step while the pass is under way, after
\* the pass has read the open orders.
FilledMeanwhile(q, mid) ==
    IF mid /\ \E o \in q.open : o.id = q.id
    THEN Filled(q, CHOOSE o \in q.open : o.id = q.id, step_size)
    ELSE q

\* One pass of "while self.running".  A cool-down set in this pass is in force;
\* an older one is over when elapsed.
Cycled(q, in) ==
    LET q1 == CheckOrderViaRest(q, in.listed, in.read_ok)
    IN  IF q1.cooling /\ (q1.trigger /= "none" \/ ~in.elapsed) THEN q1
        ELSE Dispatch(FilledMeanwhile([q1 EXCEPT !.cooling = FALSE], in.mid), in)

\* The answers and clock readings one pass of this engine can get.  A pass
\* sends one write at most, a cancel or an order, and ok is its answer.
CycleInputs(q) ==
    [listed : IF q.id /= None THEN BOOLEAN ELSE {TRUE},
     read_ok : IF q.id /= None THEN BOOLEAN ELSE {TRUE},
     mid : IF \E o \in q.open : o.id = q.id THEN BOOLEAN ELSE {FALSE},
     elapsed : IF q.cooling THEN BOOLEAN ELSE {TRUE},
     depth : ScalperDepths,
     usdc : IF q.state = "SELLING" /\ q.id = None THEN {0} ELSE UsdcAnswers,
     ok : BOOLEAN,
     late : IF q.state /= "IDLE" THEN BOOLEAN ELSE {FALSE}]

InitScalper ==
    /\ Constructed
    /\ probe = NoProbe
    /\ \E spot \in BOOLEAN, pos \in StartQtys :
          twin = [ScalperNew EXCEPT !.spot = spot, !.pos = pos]

\* run up to the loop: cancel_all (nothing is tracked), _sync_position_state,
\* "if self.held_qty > self.min_qty: self.state = 'SELLING'"
Started(q, read_ok) ==
    LET q1 == SyncPositionState(ScalperCancelAll(q, TRUE, read_ok), read_ok)
    IN  [q1 EXCEPT !.at = "loop",
                   !.state = IF q1.held > min_qty THEN "SELLING" ELSE @,
                   !.avg = IF q1.held > min_qty THEN 0 ELSE @]

ScalperStart ==
    /\ twin.at = "start"
    /\ \E read_ok \in BOOLEAN : twin' = Fresh(Started(twin, read_ok))
    /\ UNCHANGED <<prog_vars, loop_vars, world_vars, hist_vars, probe>>

ScalperCycle ==
    /\ twin.at = "loop"
    /\ \E in \in CycleInputs(twin) :
         \E q \in {Cycled(twin, in)} :
            /\ q.losses <= MaxLosses
            /\ q.pos \in 0..MaxPos
            /\ twin' = Fresh(q)
    /\ UNCHANGED <<prog_vars, loop_vars, world_vars, hist_vars, probe>>

\* An open order trades between two passes, in part or whole.
ScalperOrderFills ==
    /\ twin.at = "loop"
    /\ \E o \in twin.open :
         \E q \in {Filled(twin, o, n) : n \in {step_size, o.qty}} :
            /\ q.pos \in 0..MaxPos
            /\ twin' = q
    /\ UNCHANGED <<prog_vars, loop_vars, world_vars, hist_vars, probe>>

\* An open order leaves the book untraded: the exchange expires it, or the
\* account's owner cancels it.
ScalperOrderLeaves ==
    /\ twin.at = "loop"
    /\ \E o \in twin.open : twin' = [twin EXCEPT !.open = @ \ {o}]
    /\ UNCHANGED <<prog_vars, loop_vars, world_vars, hist_vars, probe>>

NextScalper ==
    ScalperStart \/ ScalperCycle \/ ScalperOrderFills \/ ScalperOrderLeaves

SpecScalper == InitScalper /\ [][NextScalper]_vars

(***************************************************************************)
(* Properties.  The histories of the pass at hand (sync_log, risk_log,     *)
(* logic_log, calls) are complete when pc = "sleep"; sync_log is complete  *)
(* as soon as _sync_state has returned.                                    *)
(***************************************************************************)
\* _sync_state asked for the open-orders snapshot in this pass
SnapshotFetched == sync_log.ran /\ sync_log.fetched

\* ... and the answer was a list
SnapshotListed == SnapshotFetched /\ sync_log.snapshot_ok

\* A tracked id that the fetched snapshot does not contain
BuyAbsent == SnapshotListed /\ sync_log.buy_id /= None /\ ~sync_log.buy_listed
SellAbsent == SnapshotListed /\ sync_log.sell_id /= None /\ ~sync_log.sell_listed

\* The fills _sync_state inferred in this pass for an id
FillsFor(id) == {i \in DOMAIN sync_log.fills : sync_log.fills[i].id = id}

\* The placements sent in this pass, as positions in calls
PlaceCalls == {i \in DOMAIN calls : calls[i].op = "place"}
CancelCalls == {i \in DOMAIN calls : calls[i].op = "cancel"}

\* C1: when _sync_state returns, every id that was tracked and is absent from
\* the fetched open-orders snapshot has exactly one fill inferred in this pass,
\* at the tracked order's last-known price and quantity, and is no longer
\* tracked; for spot and perpetual symbols alike, the first buy fill included.
C1_AbsentIdFillInferred ==
    /\ BuyAbsent =>
          /\ Cardinality(FillsFor(sync_log.buy_id)) = 1
          /\ \A i \in FillsFor(sync_log.buy_id) :
                /\ sync_log.fills[i].side = "Buy"
                /\ sync_log.fills[i].price = active_buy_price
                /\ sync_log.fills[i].qty = active_buy_qty
          /\ active_buy_id /= sync_log.buy_id
    /\ SellAbsent =>
          /\ Cardinality(FillsFor(sync_log.sell_id)) = 1
          /\ \A i \in FillsFor(sync_log.sell_id) :
                /\ sync_log.fills[i].side = "Sell"
                /\ sync_log.fills[i].price = active_sell_price
                /\ sync_log.fills[i].qty = active_sell_qty
          /\ active_sell_id /= sync_log.sell_id

\* C2: when the open-orders fetch fails (an error value instead of a list), the
\* pass infers no fill and every tracked id stays tracked.
C2_FailedSnapshotInfersNothing ==
    (SnapshotFetched /\ ~sync_log.snapshot_ok) =>
        /\ sync_log.fills = <<>>
        /\ active_buy_id = sync_log.buy_id
        /\ active_sell_id = sync_log.sell_id

RECURSIVE SumOver(_, _)
SumOver(f, ids) ==
    IF ids = {} THEN 0
    ELSE LET id == CHOOSE x \in ids : TRUE
         IN  f[id] + SumOver(f, ids \ {id})

\* C3: no double counting: over any sequence of passes every order the exchange
\* accepted contributes at most one inferred fill, and stats.fill_count counts
\* exactly those fills, so it never exceeds the number of orders placed.
C3_NoDoubleCounting ==
    /\ \A id \in OrderIds : fills_of[id] <= 1 /\ (fills_of[id] = 1 => id < next_id)
    /\ stats.fill_count = SumOver(fills_of, OrderIds)
    /\ stats.fill_count <= next_id - 1

\* A pass after the one that took the fill of an order: the snapshot is read
\* again without that order in it, and nothing is counted.
C3_Witness ==
    /\ SnapshotFetched
    /\ sync_log.fills = <<>>
    /\ \E id \in OrderIds : fills_of[id] = 1

\* C4: in DUAL mode every pass ends with both active_buy_id and active_sell_id
\* set or with neither set.
C4_DualBothOrNeither ==
    (pc = "sleep" /\ mode = "DUAL") =>
        ((active_buy_id /= None) = (active_sell_id /= None))

\* A pass in which _logic_dual sent a pair and the exchange took one leg only
OneLegAccepted ==
    /\ pc = "sleep"
    /\ logic_log.ran = "dual"
    /\ \E i, j \in PlaceCalls : calls[i].id /= None /\ calls[j].id = None

\* C5: when one leg of a FLAT paired placement is accepted and the other is
\* rejected, a cancel is sent after the placements in the same pass and the
\* pass ends with no tracked order.
C5_SurvivingLegCancelled ==
    OneLegAccepted =>
        /\ \E k \in CancelCalls : \A i \in PlaceCalls : i < k
        /\ active_buy_id = None
        /\ active_sell_id = None

\* _logic_dual ran and found both ids set / exactly one id set
PairedOnEntry(l) == l.ran = "dual" /\ l.buy_id /= None /\ l.sell_id /= None
LeggedOnEntry(l) == l.ran = "dual" /\ ((l.buy_id /= None) /= (l.sell_id /= None))

\* C6: _logic_dual is idempotent in the PAIRED state: a pass that enters it
\* with both ids set sends no placement and no cancel, whatever the book, and
\* leaves the tracked ids, prices and quantities (and the exchange) as they were.
C6_PairedIdempotent ==
    [][ PairedOnEntry(logic_log') =>
            /\ calls' = calls
            /\ UNCHANGED <<active_buy_id, active_sell_id, active_buy_price,
                           active_sell_price, active_buy_qty, active_sell_qty,
                           exOpen, next_id>> ]_vars

\* A pass ended in which _logic_dual found the pair tracked.
C6_Witness == pc = "sleep" /\ PairedOnEntry(logic_log)

\* C7: a pass that enters _logic_dual with exactly one id set sends a cancel,
\* places no order, and ends with both ids unset.
C7_LeggedCancelsAll ==
    LeggedOnEntry(logic_log) =>
        /\ CancelCalls /= {}
        /\ PlaceCalls = {}
        /\ active_buy_id = None
        /\ active_sell_id = None

\* A pass ended in which _logic_dual found a lone leg.
C7_Witness == pc = "sleep" /\ LeggedOnEntry(logic_log)

\* exposureRatio > MAX_POSITION_PCT at the mid price the risk check used
ExposureExceeds(mid) ==
    Abs(held_qty * mid) * 100 >
        MAX_POSITION_PCT * (IF equity * LEVERAGE <= 0 THEN 1 ELSE equity * LEVERAGE)

\* C8: the mode starts as DUAL and changes only in the risk check of a pass:
\* from DUAL to UNWIND only when the exposure ratio exceeds MAX_POSITION_PCT,
\* from UNWIND to DUAL only when |held_qty| < min_qty; and no pass assigns the
\* mode more than once.
C8_ModeTransitions ==
    /\ mode = "DUAL"
    /\ [][ /\ mode' /= mode =>
                /\ risk_log'.ran
                /\ \/ /\ mode = "DUAL" /\ mode' = "UNWIND"
                      /\ ExposureExceeds(risk_log'.mid_price)
                   \/ /\ mode = "UNWIND" /\ mode' = "DUAL"
                      /\ Abs(held_qty) < min_qty
           /\ risk_log'.switches <= 1 ]_vars

\* A pass ended whose risk check took the mode back from UNWIND to DUAL
\* (so an earlier pass had taken it from DUAL to UNWIND).
C8_Witness ==
    pc = "sleep" /\ risk_log.ran /\ risk_log.mode_before = "UNWIND" /\ mode = "DUAL"

\* C9: in every pass that reaches the risk check, DUAL with the exposure ratio
\* above MAX_POSITION_PCT becomes UNWIND, and UNWIND with |held_qty| < min_qty
\* becomes DUAL, whatever the exposure ratio is.
C9_RiskCheckSwitches ==
    (pc = "sleep" /\ risk_log.ran) =>
        /\ (risk_log.mode_before = "DUAL" /\ ExposureExceeds(risk_log.mid_price))
               => mode = "UNWIND"
        /\ (risk_log.mode_before = "UNWIND" /\ Abs(held_qty) < min_qty)
               => mode = "DUAL"

\* _logic_unwind ran and found the side that adds to the position tracked
OppositeOnEntry ==
    /\ logic_log.ran = "unwind"
    /\ \/ held_qty >= min_qty /\ logic_log.buy_id /= None
       \/ held_qty <= -min_qty /\ logic_log.sell_id /= None

\* C10, as stated: in UNWIND mode, at every end of a pass, no bid is tracked
\* with a long position and no ask is tracked with a short position.
C10_OnlyReducingSideTracked ==
    (pc = "sleep" /\ mode = "UNWIND") =>
        /\ held_qty >= min_qty => active_buy_id = None
        /\ held_qty <= -min_qty => active_sell_id = None

\* C10, amended: at the end of every pass in which _logic_unwind ran, no bid is
\* tracked with a long position and no ask with a short position; every order
\* placed in the pass is on the reducing side; and a tracked opposite-side
\* order is cancelled before any exit order is placed in that pass.
C10_UnwindClearsOpposite ==
    logic_log.ran = "unwind" =>
        /\ held_qty >= min_qty =>
              /\ active_buy_id = None
              /\ \A i \in PlaceCalls : calls[i].side = "Ask"
        /\ held_qty <= -min_qty =>
              /\ active_sell_id = None
              /\ \A i \in PlaceCalls : calls[i].side = "Bid"
        /\ OppositeOnEntry =>
              \E k \in CancelCalls : \A i \in PlaceCalls : k < i

\* A pass ended in which _logic_unwind cancelled the opposite side and then
\* placed the exit order.
C10_Witness ==
    pc = "sleep" /\ OppositeOnEntry /\ PlaceCalls /= {}


\* The best quote the unwind target decays to: best ask for a long, best bid
\* for a short
BestQuote(p) == IF p.side = "long" THEN p.best_ask ELSE p.best_bid

\* The target of q lies between the target of p and the best quote.
NoFurtherFromBest(p, q) ==
    IF p.target >= BestQuote(p)
    THEN BestQuote(p) <= q.target /\ q.target <= p.target
    ELSE p.target <= q.target /\ q.target <= BestQuote(p)

\* C11: past the break-even timeout the unwind target only moves toward the
\* best quote (best ask for a long, best bid for a short) as time passes, never
\* beyond it, and once the 600 s decay window has elapsed the target, and the
\* price quoted, is the best quote itself, whatever the markup and the book.
C11_DecayReachesBestQuote ==
    /\ [](probe.fn = "unwind" /\ probe.dur >= BREAKEVEN_TIMEOUT + DecayWindow
            => probe.target = BestQuote(probe) /\ probe.final = BestQuote(probe))
    /\ [][probe.fn = "unwind" => NoFurtherFromBest(probe, probe')]_vars

C11_Witness ==
    /\ probe.fn = "unwind" /\ probe.side = "short"
    /\ probe.dur >= BREAKEVEN_TIMEOUT + DecayWindow
    /\ probe.markup > 0 /\ probe.best_bid < probe.best_ask
    /\ probe.target = probe.best_bid


\* C12: what a cancel_all leaves open at the exchange without tracking it is
\* put right by the _sync_state of the next cycle: when that sync returns,
\* every such order is tracked again or is no longer open, also when the
\* cancel request failed or was lost.
C12_StrandedResolvedByResync ==
    [][pc = "sync" /\ pc' = "quote"
         => \A id \in stranded :
               \/ id \notin {o.id : o \in exOpen'}
               \/ id \in {active_buy_id', active_sell_id'}]_vars


\* The positions of run inside "while True"
LoopPcs == {"sleep", "sync", "quote"}

\* C13: nothing that goes wrong in a cycle of run (a failed read, a rejected
\* order, a failed cancel, an exception inside _sync_state) ends the loop:
\* from every position inside the loop the loop's next step can be taken,
\* every step taken there stays inside the loop, and a cycle that has done its
\* sync, whatever happened in it, is followed by the start of a next cycle.
C13_LoopNeverStops ==
    /\ [](pc \in LoopPcs => ENABLED (Sleep \/ SyncState \/ SkipCycle \/ Quote))
    /\ [](pc = "sleep" => ENABLED Sleep)
    /\ [][(pc \in LoopPcs) => (pc' \in LoopPcs)]_vars
    /\ (pc \in {"quote", "sleep"}) ~> (pc = "sync")

\* _sync_state raised in this cycle and run is about to read the book
C13_Witness == pc = "quote" /\ sync_log.raised


\* C14: when init_market_info does not find the configured symbol in the
\* market list (the list may be empty: get_markets failed), the program stops
\* there: no order is placed, no cancel-all is sent, no cycle of the loop runs.
C14_AbsentSymbolStops ==
    ~found =>
        /\ pc \in {"init", "exited"}
        /\ calls = <<>> /\ exOpen = {} /\ next_id = 1
        /\ ~sync_log.ran /\ ~risk_log.ran /\ logic_log.ran = "none"

C14_Witness == pc = "exited" /\ ~found


\* C15: a _sync_state whose collateral read or position read failed in
\* transport leaves the ledger as it was: a position held before the sync is
\* held after it, with the same held_qty and avg_cost (a failed read is not
\* taken for a flat position).
C15_FailedReadKeepsLedger ==
    [][sync_log'.ran /\ ~sync_log.ran
         /\ (sync_log'.col_failed \/ sync_log'.pos_failed)
         /\ Abs(held_qty) >= min_qty
       => held_qty' = held_qty /\ avg_cost' = avg_cost]_vars


\* C16: for a spot symbol the position quantity is never negative: whatever
\* the syncs read and the fills they infer, held_qty >= 0.
C16_SpotPositionNonNegative == ~IsPerp(symbol) => held_qty >= 0


\* The fills of one side a sync inferred
FillsOn(side, l) == {i \in DOMAIN l.fills : l.fills[i].side = side}

\* C17: a sync that infers a buy fill (and no sell fill) of a spot order of
\* size qty at price sets the cost basis to the size-weighted average of the
\* position held before and the fill: (q * avg_cost + qty * price) / (q + qty)
\* when q > 0 was held at avg_cost, and price when nothing was held.
C17_BuyFillWeightedAverage ==
    [][~IsPerp(symbol) /\ ~sync_log.ran
         /\ FillsOn("Buy", sync_log') /= {} /\ FillsOn("Sell", sync_log') = {}
         /\ held_qty >= 0 /\ avg_cost /= Unset /\ held_qty' > held_qty
       => avg_cost' =
             IF held_qty > 0
             THEN (held_qty * avg_cost + active_buy_qty * active_buy_price)
                      \div (held_qty + active_buy_qty)
             ELSE active_buy_price]_vars


\* C18: when a sync that read the account returns with a flat position
\* (|held_qty| < min_qty), the quantity is zero and so is the cost basis
\* (or it was never assigned): no path leaves a cost on a flat position.
C18_FlatMeansZero ==
    sync_log.ran /\ sync_log.fetched /\ Abs(held_qty) < min_qty
        => held_qty = 0 /\ avg_cost \in {0, Unset}


\* C19: held_qty and avg_cost are written by _sync_state only: every step of
\* run outside the sync (the cancel_all at the start, the risk check, the
\* quote policy of either mode with its placements and cancels, the sleep)
\* leaves both as they were, whatever the exchange answered.
C19_LedgerWrittenBySyncOnly ==
    [][pc \notin {"sync0", "sync"}
         => held_qty' = held_qty /\ avg_cost' = avg_cost]_vars

\* a cycle with a position in which the mode changed, a cancel was sent and an
\* order was placed
C19_Witness ==
    /\ pc = "sleep" /\ Abs(held_qty) >= min_qty
    /\ risk_log.switches > 0
    /\ CancelCalls /= {}
    /\ \E i \in PlaceCalls : calls[i].id /= None


\* C20: the fee rate does not steer the engine.  Of two engines that get the
\* same answers from the exchange and differ in TAKER_FEE_RATE only, the
\* second has sent, at every moment of the pass, the same placements (side,
\* price, quantity, outcome) and cancels in the same order as the first, is
\* in the same mode and has changed mode as often.
C20_FeeRateDoesNotSteer ==
    twin.fee_rate /= TAKER_FEE_RATE
        => /\ twin.calls = calls
           /\ twin.mode = mode
           /\ twin.switches = risk_log.switches

\* the two engines have booked different fees and the pass has cancelled and
\* placed since
C20_Witness ==
    /\ twin.fee_rate /= TAKER_FEE_RATE
    /\ twin.stats.total_fee /= stats.total_fee
    /\ pc = "sleep" /\ CancelCalls /= {}
    /\ \E i \in PlaceCalls : calls[i].id /= None


\* C21: a placement (POST) and a cancellation (DELETE) are never sent again by
\* the transport: one call of execute_order or cancel_open_orders puts at most
\* one request before the exchange.  Only a read (GET) may be sent again, and
\* no more than RetryTotal times.
C21_WritesSentOnce ==
    /\ (probe.fn = "request" /\ probe.method \in {"POST", "DELETE"}) => probe.sent <= 1
    /\ (probe.fn = "request" /\ probe.method = "GET") => probe.sent <= 1 + RetryTotal


\* C22: when the operator stops the running bot (KeyboardInterrupt), a
\* cancel-all for the symbol is sent before the process ends, whatever the
\* mode and the tracked orders were: the last request of a stopped process is
\* the cancel-all.
C22_StopCancelsAll ==
    (probe.fn = "stop" /\ pc \in {"stopped", "exited"}) =>
        (calls /= <<>> /\ calls[Len(calls)] = CancelCall)


\* The last write of the pass at hand is a cancel-all: cancel_all has returned
\* and nothing was placed after it.
EndsInCancel(cs) == cs /= <<>> /\ cs[Len(cs)] = CancelCall

\* C23: after cancel_all returns, active_buy_id and active_sell_id are both
\* unset, whether the exchange cancelled the orders, refused, or never got the
\* request: every step in which cancel_all was the last thing to write to the
\* exchange ends with no tracked id.
C23_CancelAllClearsIds ==
    [][ (calls' /= calls /\ EndsInCancel(calls')) =>
            (active_buy_id' = None /\ active_sell_id' = None) ]_vars

\* a pass that found an order tracked, whose cancel-all the exchange did not
\* carry out
C23_Witness ==
    /\ pc = "sleep" /\ EndsInCancel(calls)
    /\ logic_log.buy_id /= None \/ logic_log.sell_id /= None
    /\ exOpen /= {}
    /\ active_buy_id = None /\ active_sell_id = None


\* The usable books whose best prices have this mid
BooksAt(mid) ==
    {d \in DepthResponses :
        BookUsable(d) /\ MidPrice(SeqMax(d.bids), SeqMin(d.asks)) = mid}

\* The placement c is the exit _logic_unwind quotes on the book d for this
\* ledger when dur seconds have passed since unwind_start_time.
IsExitQuote(c, d, held, initial, real, dur) ==
    LET b == SeqMax(d.bids)
        a == SeqMin(d.asks)
        m == Markup(Deficit(initial, real), Abs(held))
    IN  /\ c.qty = floor_to(Abs(held))
        /\ IF held > 0
           THEN c.side = "Ask" /\ c.price = round_to_step(FinalAsk(b, a, m, dur), tick_size)
           ELSE c.side = "Bid" /\ c.price = round_to_step(FinalBid(b, a, m, dur), tick_size)

\* C24: in the pass that switches DUAL to UNWIND the engine sends a cancel-all
\* and sets unwind_start_time to now, both before it places an exit order: the
\* cancel-all is the first write of the pass, no time has passed on the unwind
\* clock when the pass ends, and an exit placed in the pass is priced for an
\* unwind that has just begun.
C24_SwitchCancelsAndStartsClock ==
    [][ (mode = "DUAL" /\ mode' = "UNWIND") =>
            /\ calls' /= <<>> /\ calls'[1] = CancelCall
            /\ duration' = 0
            /\ \A i \in DOMAIN calls' : calls'[i].op = "place" =>
                   /\ i > 1
                   /\ \E d \in BooksAt(risk_log'.mid_price) :
                          IsExitQuote(calls'[i], d, held_qty, initial_real_equity,
                                      real_equity, 0) ]_vars

\* a pass switched to UNWIND, cancelled, and placed an exit away from the
\* best prices: the deficit is still fully priced in
C24_Witness ==
    /\ pc = "sleep" /\ mode = "UNWIND" /\ risk_log.mode_before = "DUAL"
    /\ duration = 0
    /\ calls /= <<>> /\ calls[1] = CancelCall
    /\ \E i \in PlaceCalls : calls[i].id /= None
                             /\ Abs(calls[i].price - risk_log.mid_price) > tick_size


\* _logic_dual ran and found no id tracked
FlatOnEntry(l) == l.ran = "dual" /\ l.buy_id = None /\ l.sell_id = None

\* The placements in cs on this side
PlacedOn(cs, side) == {i \in DOMAIN cs : cs[i].op = "place" /\ cs[i].side = side}

GuardHolds(l, d, eq) ==
    /\ l.ran = "dual"
    /\ \/ SeqMax(d.bids) >= SeqMin(d.asks)
       \/ RawQty(eq, SeqMin(d.asks)) < min_qty

\* _logic_dual wrote nothing to the exchange: the pass has no placement and no
\* cancel but the one of a mode switch before it.
DualWroteNothing(cs, r) ==
    /\ \A i \in DOMAIN cs : cs[i].op /= "place"
    /\ Len(cs) = r.switches

\* C26 as claimed: on a crossed or locked book, or with a quote size below
\* min_qty, _logic_dual places no order and sends no cancel, whether it found
\* nothing tracked, the pair, or a lone leg.
C26_GuardSkipsInEveryState ==
    [][ \A d \in BooksAt(risk_log'.mid_price) :
          GuardHolds(logic_log', d, equity) => DualWroteNothing(calls', risk_log') ]_vars

\* C26, amended: on such a book or with such a size _logic_dual places no
\* order, and sends no cancel when it found nothing tracked or the pair.  The
\* lone-leg test comes before the guard: a lone leg is cancelled on any book.
C26_GuardSkipsFlatAndPaired ==
    [][ \A d \in BooksAt(risk_log'.mid_price) :
          GuardHolds(logic_log', d, equity) =>
             /\ \A i \in DOMAIN calls' : calls'[i].op /= "place"
             /\ ~LeggedOnEntry(logic_log') => DualWroteNothing(calls', risk_log')
             /\ LeggedOnEntry(logic_log') => EndsInCancel(calls') ]_vars

\* a pass found nothing tracked and had the size to quote, but the book was
\* locked: nothing was sent
C26_Witness ==
    /\ pc = "sleep" /\ FlatOnEntry(logic_log)
    /\ \E d \in BooksAt(risk_log.mid_price) :
          SeqMax(d.bids) >= SeqMin(d.asks) /\ RawQty(equity, SeqMin(d.asks)) >= min_qty
    /\ calls = <<>>


\* The pass at hand found nothing tracked, attempted the pair, and the
\* exchange accepted neither leg.
NeitherAccepted ==
    /\ pc = "sleep" /\ FlatOnEntry(logic_log)
    /\ PlaceCalls /= {}
    /\ \A i \in PlaceCalls : calls[i].id = None

\* The engine q attempts the pair in its next pass, whatever that pass reads
\* and hears, if it is in DUAL mode after the risk check, the book is usable
\* and uncrossed and the size is at least min_qty.
RetriesNextPass(q) ==
    \A late \in BOOLEAN, col \in CollateralResponses :
      \A pos \in PositionAnswers(col), listed \in SnapshotAnswers(col) :
        \A q1 \in {Synced(Slept(q, late), col, pos, listed)} :
          \A depth \in {d \in DepthResponses : BookUsable(d)}, ok \in BOOLEAN :
            \A bid_1 \in {SeqMax(depth.bids)}, ask_1 \in {SeqMin(depth.asks)} :
              \A q2 \in {RiskChecked(q1, bid_1, ask_1, ok)} :
                (bid_1 < ask_1 /\ q2.mode = "DUAL"
                   /\ RawQty(Capital(q2), ask_1) >= min_qty) =>
                  \A acc1 \in BOOLEAN, acc2 \in BOOLEAN :
                    \A q3 \in {Quoted(q1, depth, ok, acc1, acc2)} :
                      \E b \in PlacedOn(q3.calls, "Bid"), a \in PlacedOn(q3.calls, "Ask") :
                        /\ PlacedOn(q3.calls, "Bid") = {b}
                        /\ PlacedOn(q3.calls, "Ask") = {a}
                        /\ q3.calls[b].price = bid_1 /\ q3.calls[a].price = ask_1

\* C27: when the exchange accepts neither leg of a paired placement, the
\* engine stays FLAT with nothing tracked, and its next pass, if it is still
\* in DUAL mode on a valid book (with the size to quote), attempts the pair
\* afresh.
C27_NeitherAcceptedRetries ==
    NeitherAccepted =>
        /\ active_buy_id = None /\ active_sell_id = None
        /\ RetriesNextPass(Here)

\* both legs were sent and both were refused
C27_Witness ==
    /\ NeitherAccepted
    /\ PlacedOn(calls, "Bid") /= {} /\ PlacedOn(calls, "Ask") /= {}
    /\ mode = "DUAL" /\ RawQty(equity, 8) >= min_qty


\* |quantity * mark| / (tradingEquity * leverage) > MAX_POSITION_PCT, for a
\* positive trading equity
RatioOver(quantity, mark, trading_equity) ==
    Abs(quantity * mark) * 100 > MAX_POSITION_PCT * trading_equity * LEVERAGE

\* The mode a pass leaves when the exposure of the engine it began with is
\* valued at mark: UNWIND is entered above the limit, left when flat below it.
ModeDecidedAt(before, mark) ==
    LET over == RatioOver(before.held, mark, before.equity)
    IN  IF over THEN "UNWIND"
        ELSE IF Abs(before.held) < min_qty THEN "DUAL" ELSE before.mode

\* The mid of the best prices the pass read
PassMid == MidPrice(probe.bid_1, probe.ask_1)

\* C28 as claimed: the exposure ratio of the mode decision values the position
\* at its average cost whenever that is known (non-zero), and at the mid of the
\* best bid and ask only otherwise.
C28_RatioAtCostWhenKnown ==
    probe.fn = "pass" =>
        twin.mode = ModeDecidedAt(probe.before,
                                  IF probe.before.avg /= 0 THEN probe.before.avg
                                  ELSE PassMid)

\* C28, amended: the exposure ratio of the mode decision is
\* |quantity * markPrice| / (tradingEquity * leverage) where markPrice is the
\* mid of best bid and ask in every case; the average cost is not consulted.
C28_RatioAtMid ==
    probe.fn = "pass" => twin.mode = ModeDecidedAt(probe.before, PassMid)

\* a pass in which the cost is known and the two valuations decide differently
C28_Witness ==
    /\ probe.fn = "pass" /\ probe.before.avg /= 0
    /\ ModeDecidedAt(probe.before, probe.before.avg)
           /= ModeDecidedAt(probe.before, PassMid)
    /\ twin.mode /= probe.before.mode


\* The placement c closes the position held at the price _logic_unwind reaches
\* from these best prices with the markup m, dur seconds into the unwind.
ExitAt(c, bid_1, ask_1, held, m, dur) ==
    /\ c.qty = floor_to(Abs(held))
    /\ IF held > 0
       THEN c.side = "Ask"
            /\ c.price = round_to_step(FinalAsk(bid_1, ask_1, m, dur), tick_size)
       ELSE c.side = "Bid"
            /\ c.price = round_to_step(FinalBid(bid_1, ask_1, m, dur), tick_size)

\* The pass ended in UNWIND mode: the orders it placed are exits
UnwindPass == probe.fn = "pass" /\ twin.mode = "UNWIND"
PassExits == {i \in DOMAIN twin.calls : twin.calls[i].op = "place"}

\* C29 as claimed: the deficit is max(0, equityAtUnwindStart - current
\* settlement equity) with the equity recorded at the start of the current
\* UNWIND episode, so equity lost before the episode began does not enter it:
\* in the pass that begins the episode the two equities are the same reading
\* and the exit is priced with the deficit of that reading against itself.
C29_DeficitSinceUnwindStart ==
    (UnwindPass /\ probe.before.mode = "DUAL") =>
        \A i \in PassExits :
            ExitAt(twin.calls[i], probe.bid_1, probe.ask_1, probe.before.held,
                   Markup(Deficit(probe.before.real, probe.before.real),
                          Abs(probe.before.held)),
                   twin.duration)

\* C29, amended: the deficit is max(0, initial_real_equity - current settlement
\* equity), recomputed every cycle, where initial_real_equity is the settlement
\* equity _sync_state recorded once; a pass does not record it anew, not even
\* the pass that begins an UNWIND episode, so equity lost before the episode
\* began enters the deficit.
C29_DeficitSinceFirstEquity ==
    UnwindPass =>
        /\ twin.initial = probe.before.initial
        /\ twin.real = probe.before.real
        /\ \A i \in PassExits :
               ExitAt(twin.calls[i], probe.bid_1, probe.ask_1, probe.before.held,
                      Markup(Max(0, probe.before.initial - probe.before.real),
                             Abs(probe.before.held)),
                      twin.duration)

\* a pass began an unwind with equity already lost, and its exit carries that
\* loss: it is priced away from what a zero deficit gives
C29_Witness ==
    /\ UnwindPass /\ probe.before.mode = "DUAL"
    /\ probe.before.real < probe.before.initial
    /\ \E i \in PassExits :
           /\ twin.calls[i].id /= None
           /\ ~ExitAt(twin.calls[i], probe.bid_1, probe.ask_1, probe.before.held,
                      0, twin.duration)


\* C30: whenever _logic_unwind prices an exit (|held_qty| >= min_qty) the
\* markup per unit is deficit / |held_qty|, the boundary |held_qty| = min_qty
\* included: every exit a pass places is priced with that markup.
C30_MarkupIsDeficitPerUnit ==
    (UnwindPass /\ Abs(probe.before.held) >= min_qty) =>
        \A i \in PassExits :
            ExitAt(twin.calls[i], probe.bid_1, probe.ask_1, probe.before.held,
                   Deficit(probe.before.initial, probe.before.real)
                       \div Abs(probe.before.held),
                   twin.duration)


\* The pass quoted an exit before the break-even timeout
EarlyUnwindPass == UnwindPass /\ twin.duration <= BREAKEVEN_TIMEOUT

\* markup_per_unit of the pass
PassMarkup ==
    Markup(Deficit(probe.before.initial, probe.before.real), Abs(probe.before.held))

\* The exit c is sent at the price `final` and on the passive side of the book
SentAt(c, final) ==
    /\ c.price = round_to_step(final, tick_size)
    /\ c.side = "Ask" => c.price >= probe.ask_1
    /\ c.side = "Bid" => c.price <= probe.bid_1

\* C31 as claimed: before the break-even timeout the exit price is
\* max(midPrice + markupPerUnit, bestAsk) for a long position and
\* min(midPrice - markupPerUnit, bestBid) for a short one, so an exit ask is
\* never below bestAsk and an exit bid never above bestBid.
C31_ExitAtMarkedUpMid ==
    EarlyUnwindPass =>
        \A i \in PassExits :
            IF probe.before.held > 0
            THEN /\ twin.calls[i].side = "Ask"
                 /\ SentAt(twin.calls[i], Max(PassMid + PassMarkup, probe.ask_1))
            ELSE /\ twin.calls[i].side = "Bid"
                 /\ SentAt(twin.calls[i], Min(PassMid - PassMarkup, probe.bid_1))

\* C31, amended: as claimed, except that for a short position whose
\* midPrice - markupPerUnit is zero or negative the target is half of bestBid:
\* the exit bid is min(bestBid / 2, bestBid) then.
C31_ExitAtMarkedUpMidOrHalfBid ==
    EarlyUnwindPass =>
        \A i \in PassExits :
            IF probe.before.held > 0
            THEN /\ twin.calls[i].side = "Ask"
                 /\ SentAt(twin.calls[i], Max(PassMid + PassMarkup, probe.ask_1))
            ELSE /\ twin.calls[i].side = "Bid"
                 /\ SentAt(twin.calls[i],
                           Min(IF PassMid - PassMarkup <= 0 THEN probe.bid_1 \div 2
                               ELSE PassMid - PassMarkup,
                               probe.bid_1))

\* a short exit was accepted below the best bid in a pass whose deficit per
\* unit is at least the mid price
C31_Witness ==
    /\ EarlyUnwindPass
    /\ probe.before.held < 0 /\ PassMid - PassMarkup <= 0
    /\ \E i \in PassExits : /\ twin.calls[i].id /= None
                             /\ twin.calls[i].price < probe.bid_1


\* The step is a pass in which _logic_unwind quotes an exit for the position
UnwindStep ==
    /\ pc = "quote" /\ pc' = "sleep" /\ logic_log'.ran = "unwind"
    /\ Abs(held_qty) >= min_qty

\* The exit-side order _logic_unwind finds tracked, and its recorded price
ExitIdOnEntry == IF held_qty > 0 THEN logic_log'.sell_id ELSE logic_log'.buy_id
ExitPriceOnEntry == IF held_qty > 0 THEN active_sell_price ELSE active_buy_price
OppositeIdOnEntry == IF held_qty > 0 THEN logic_log'.buy_id ELSE logic_log'.sell_id

\* How far the recorded price of the tracked exit is from the target of the pass
ExitDrift ==
    LET d == CHOOSE d \in BooksAt(risk_log'.mid_price) : TRUE
        b == SeqMax(d.bids)
        a == SeqMin(d.asks)
        m == Markup(Deficit(initial_real_equity, real_equity), Abs(held_qty))
    IN  IF held_qty > 0
        THEN Abs(ExitPriceOnEntry - FinalAsk(b, a, m, duration'))
        ELSE Abs(ExitPriceOnEntry - FinalBid(b, a, m, duration'))

\* The re-quote rule of a pass whose tolerance is tol: the tracked exit is
\* cancelled, and nothing placed, when it has drifted beyond tol, and nothing
\* is written otherwise
RequotesBeyond(tol) ==
    /\ (\E i \in DOMAIN calls' : calls'[i].op = "place") => ExitIdOnEntry = None
    /\ (ExitIdOnEntry /= None /\ OppositeIdOnEntry = None) =>
           IF ExitDrift > tol
           THEN calls' = <<CancelCall>>
           ELSE calls' = <<>>

\* C32 as claimed: in UNWIND mode an exit is placed only in a pass that finds
\* no exit-side order tracked; a tracked exit is cancelled for re-quoting only
\* when its recorded price is further from the target than the tick tolerance,
\* and within the tolerance the pass writes nothing; the tolerance is tighter
\* once timeout decay is active, so a drift of a whole tick is then beyond it.
C32_RequoteToleranceTightens ==
    [][ UnwindStep =>
            IF duration' > BREAKEVEN_TIMEOUT
            THEN RequotesBeyond(tick_size - 1)
            ELSE RequotesBeyond(tick_size) ]_vars

\* C32, amended: as claimed, with a tolerance of one tick (tick_size) whether or
\* not timeout decay is active.
C32_RequoteBeyondOneTick ==
    [][ UnwindStep => RequotesBeyond(tick_size) ]_vars

\* an unwind pass under decay found its exit a whole tick from the target and
\* wrote nothing
C32_Witness ==
    /\ pc = "sleep" /\ logic_log.ran = "unwind" /\ duration > BREAKEVEN_TIMEOUT
    /\ calls = <<>>
    /\ \/ /\ held_qty <= -min_qty /\ logic_log.buy_id /= None
          /\ \E d \in BooksAt(risk_log.mid_price) :
                 Abs(active_buy_price - SeqMax(d.bids)) = tick_size
       \/ /\ held_qty >= min_qty /\ logic_log.sell_id /= None
          /\ \E d \in BooksAt(risk_log.mid_price) :
                 Abs(active_sell_price - SeqMin(d.asks)) = tick_size


\* The sync read the position from the exchange and the read succeeded: the
\* collateral answer for a spot symbol, the positions answer as well for a
\* perpetual
PositionRead ==
    /\ probe.fn = "sync"
    /\ probe.col.type = "dict" /\ "error" \notin DOMAIN probe.col.body
    /\ IsPerp(symbol) => probe.pos.type = "list"

\* The position the exchange reported: for a spot symbol the net quantity of
\* the base asset among the collateral (nothing held when it is not listed),
\* for a perpetual the first position of the symbol (none: flat)
RemoteSpotQty ==
    LET assets == probe.col.body.collateral
        hits == {i \in DOMAIN assets : Upper(assets[i].symbol) = BaseAsset(symbol)}
    IN  IF hits = {} THEN 0
        ELSE LET i == CHOOSE i \in hits : \A j \in hits : j <= i
             IN  assets[i].totalQuantity - assets[i].borrowedQuantity
RemotePerp ==
    LET ps == probe.pos.body
        hits == {i \in DOMAIN ps : ps[i].symbol = symbol}
    IN  IF hits = {} THEN [qty |-> 0, entry |-> 0]
        ELSE LET i == CHOOSE i \in hits : \A j \in hits : i <= j
             IN  [qty |-> ps[i].netQuantity, entry |-> ps[i].entryPrice]

\* C33: after every successful remote position read the local position is the
\* remote one, whatever the engine held before: held_qty is the remote
\* quantity and, for a perpetual, avg_cost the remote entry price, both zero
\* when the exchange reports no position.
C33_RemoteReadOverwrites ==
    PositionRead =>
        IF IsPerp(symbol)
        THEN twin.held = RemotePerp.qty /\ twin.avg = RemotePerp.entry
        ELSE twin.held = RemoteSpotQty

\* a sync that found a fill of the tracked buy and a remote position other
\* than the local one, within min_qty of it
C33_Witness ==
    /\ PositionRead
    /\ twin.held /= probe.before.held
    /\ Abs(twin.held - probe.before.held) <= min_qty
    /\ twin.sync.fills /= <<>>


\* C35: at the end of every pass the exchange holds at most one open bid and
\* at most one open ask of the engine, and each of them is tracked: no
\* duplicate and no orphaned quote is left, whatever fills, refused placements,
\* failed cancels and failed open-orders reads came before.
C35_NoDuplicateNoOrphan ==
    pc = "sleep" =>
        /\ \A o \in exOpen : o.id \in {active_buy_id, active_sell_id}
        /\ \A o1 \in exOpen, o2 \in exOpen : o1.side = o2.side => o1 = o2


\* A pair is tracked and exactly one of its legs has left the book: the next
\* snapshot will not list it
LegFilled ==
    /\ pc = "sync" /\ mode = "DUAL"
    /\ active_buy_id /= None /\ active_sell_id /= None
    /\ \E o \in exOpen : o.id \in {active_buy_id, active_sell_id}
    /\ \E id \in {active_buy_id, active_sell_id} : \A o \in exOpen : o.id /= id

\* The reads of a cycle that all succeed, on an uncrossed book of two levels
GoodReads ==
    { [col |-> col, pos |-> pos, depth |-> depth] :
        col \in {c \in CollateralResponses :
                    c.type = "dict" /\ "error" \notin DOMAIN c.body},
        pos \in {p \in PositionResponses(symbol) : p.type = "list"},
        depth \in {d \in DepthResponses :
                    BookUsable(d) /\ SeqMax(d.bids) < SeqMin(d.asks)} }

\* The engine q after a cycle with these reads, every cancel carried out and
\* every placement answered with an id
GoodCycle(q, r) == Quoted(Synced(q, r.col, r.pos, TRUE), r.depth, TRUE, TRUE, TRUE)

\* The engine sent a bid and an ask in the cycle it has just ended
SentPair(q) == PlacedOn(q.calls, "Bid") /= {} /\ PlacedOn(q.calls, "Ask") /= {}

\* C36: after one leg of a resting pair has filled, if the engine stays in DUAL
\* mode, every read succeeds, the book is uncrossed with two levels a side and
\* the equity read gives a size of at least min_qty, then within two further
\* cycles the engine has sent a fresh bid and ask (which, accepted, rest at the
\* exchange and are tracked); for a spot symbol as for a perpetual.
C36_RequotesWithinTwoCycles ==
    LegFilled =>
        \A r1 \in GoodReads, r2 \in GoodReads, late \in BOOLEAN :
            \A q1 \in {GoodCycle(Here, r1)} :
            \A q2 \in {GoodCycle(Slept(q1, late), r2)} :
                (/\ q1.mode = "DUAL" /\ q2.mode = "DUAL"
                 /\ RawQty(Capital(q2), SeqMin(r2.depth.asks)) >= min_qty)
                    => (SentPair(q1) \/ SentPair(q2))


\* The order-book read failed, or returned fewer than two levels on a side
ThinBook(depth) ==
    \/ depth = NoDepth
    \/ Len(depth.bids) < 2
    \/ Len(depth.asks) < 2

\* C37: when the order-book read fails or returns fewer than two levels on
\* either side, the pass evaluates no risk and writes nothing to the exchange:
\* the mode, the tracked ids and the open orders are after the book read what
\* they were before it.
C37_ThinBookSkipsPass ==
    (probe.fn \in {"pass", "skip"} /\ ThinBook(probe.depth)) =>
        /\ twin.mode = probe.before.mode
        /\ twin.duration = probe.before.duration
        /\ twin.buy_id = probe.before.buy_id
        /\ twin.sell_id = probe.before.sell_id
        /\ twin.open = probe.before.open
        /\ twin.calls = probe.before.calls
        /\ twin.switches = 0

\* a pass was skipped on a book of one bid, with a position the risk check
\* would have taken the engine out of DUAL mode for
C37_Witness ==
    /\ probe.fn = "skip" /\ probe.depth /= NoDepth
    /\ probe.before.mode = "DUAL" /\ twin.mode = "DUAL"
    /\ RatioHigh(probe.before.held, MidPrice(SeqMax(probe.depth.bids),
                                            SeqMin(probe.depth.asks)),
                 probe.before.equity)

(***************************************************************************)
(* TickScalper.  A property of what a pass of the loop does is stated of   *)
(* every pass the engine can make from the state it is in: of Cycled for    *)
(* each answer the pass can get.                                            *)
(***************************************************************************)
Passes ==
    IF twin.at = "loop" THEN {Cycled(twin, in) : in \in CycleInputs(twin)} ELSE {}

\* C39: in TickScalper a closing sell whose net PnL is not negative resets
\* the consecutive-loss counter to 0 and triggers no cool-down, so the long
\* cool-down is triggered only by a losing closing sell that follows a losing
\* closing sell, with no profitable one between them.
C39_GainResetsLossCount ==
    \A q \in Passes :
        /\ q.sold = "gain" => q.losses = 0 /\ q.trigger = "none"
        /\ q.trigger = "long" => q.sold = "loss" /\ q.trip = "loss"

\* The pass q inferred a sell fill: it stopped tracking an ask and read a
\* position below the one it held.
SellFillSeen(q) == twin.side = "Ask" /\ q.real /= NoRead /\ q.real < twin.held

\* C34: on each inferred sell fill the realized PnL of TickScalper increases by
\* exactly (fill price - average cost) * filled quantity, the filled quantity
\* being the decrease of the position observed for that fill, and no other
\* event changes the realized PnL.
C34_PnlFromObservedDecrease ==
    \A q \in Passes :
        q.dpnl = IF SellFillSeen(q)
                 THEN (twin.price - twin.avg) * (twin.held - q.real)
                 ELSE 0

\* The pass q sent an order.
Placed(q) == \E i \in 1..Len(q.calls) : q.calls[i].op = "place"

\* C38: TickScalper keeps at most one of its own orders open at the exchange:
\* every open order is the tracked one (an order is untracked only after it
\* has left the book), and a pass places an order only when none is tracked,
\* whatever fills, cancel requests and open-orders reads fail.
C38_AtMostOneOwnOrder ==
    /\ Cardinality(twin.open) <= 1
    /\ \A o \in twin.open : o.id = twin.id
    /\ \A q \in Passes : Placed(q) => q.entry_id = None

\* What run can reach the loop with from the state the engine is constructed in
Starts ==
    IF twin.at = "start" THEN {Started(twin, read_ok) : read_ok \in BOOLEAN} ELSE {}

\* The pass q had a bid accepted.
BidAccepted(q) ==
    \E i \in 1..Len(q.calls) :
        q.calls[i].op = "place" /\ q.calls[i].side = "Bid" /\ q.calls[i].id /= None

\* The pass q sent an ask.
AskSent(q) ==
    \E i \in 1..Len(q.calls) : q.calls[i].op = "place" /\ q.calls[i].side = "Ask"

\* The position q holds is positive and is the one it read.
PositionSeen(q) == q.real > 0 /\ q.held = q.real

\* C40: the TickScalper state machine.  The state becomes BUYING only in a
\* pass where a bid was accepted; it becomes SELLING only on a positive
\* position that was read, a buy fill in a pass or a position above min_qty at
\* start; a policy that finds state BUYING or SELLING with no tracked order and
\* a position below min_qty returns to IDLE and sends no ask; so state BUYING
\* has a tracked bid when its pass begins, or the pass leaves to IDLE.
C40_StateMachine ==
    /\ \A q \in Passes :
          /\ q.state = "BUYING" /\ twin.state /= "BUYING" => BidAccepted(q)
          /\ q.state = "SELLING" /\ twin.state /= "SELLING" =>
                 twin.side = "Bid" /\ PositionSeen(q)
          /\ /\ q.ran \in {"chase", "sell"}
             /\ q.entry_id = None
             /\ q.entry_held < min_qty
             => q.state = "IDLE" /\ ~AskSent(q)
    /\ \A q \in Starts : q.state = "SELLING" => q.held > min_qty /\ PositionSeen(q)
    /\ twin.state = "BUYING" =>
          \/ twin.id /= None /\ twin.side = "Bid"
          \/ \A q \in Passes : q.state = "IDLE"

\* A pass finds the tracked bid gone and dust bought, and goes from BUYING by
\* way of SELLING back to IDLE without sending an ask.
C40_Witness ==
    /\ twin.state = "BUYING"
    /\ twin.id /= None
    /\ \E q \in Passes :
          /\ q.ran = "sell"
          /\ q.entry_id = None
          /\ q.entry_held > 0
          /\ q.entry_held < min_qty
          /\ q.state = "IDLE"

====
